---- MODULE Spec2Model ----
(***************************************************************************)
(* Chunk placement and migration in the sharded-cluster simulator:         *)
(* cluster.py (Cluster), node.py (Node), metrics.py (MetricsCollector),    *)
(* workload.py, balancers.py and main.py, run on simpy's cooperative       *)
(* scheduler.  Simulated time is counted in whole seconds; request         *)
(* arrivals and service completions (milliseconds apart) are steps that    *)
(* take no whole second.                                                   *)
(*                                                                         *)
(* Spec drives the Cluster API with calls of any arguments at chosen       *)
(* instants; SpecRun is run_simulation: the workload, one balancing policy *)
(* and the metrics logger.                                                 *)
(***************************************************************************)
EXTENDS Integers, Sequences, FiniteSets, TLC

(* ------------------------------ bounds --------------------------------- *)
\* config.NUM_NODES is 4 and config.NUM_CHUNKS is 64; the model is bounded.
NUM_NODES == 2
NUM_CHUNKS == 3
\* Cap on metrics.migrations_reactive + metrics.migrations_proactive.
MaxMigrations == 3
\* Cap on the requests dispatched and not yet completed, over all nodes.
MaxOutstanding == 7
\* len(metrics.response_times) is counted up to this.
MaxResponses == 3
\* log_metrics asks for 100 response times; the modelled run for fewer.
LOG_MIN_SAMPLES == 2
\* get_reward asks for 200 response times; the modelled run for fewer.
REWARD_MIN_SAMPLES == 3
\* config.SIM_TIME is 400; the modelled run ends earlier.
SIM_TIME == 91

(* ------------------------- program constants --------------------------- *)
MIGRATION_TIME == 3
migration_cooldown == 25
REACTIVE_CHECK_INTERVAL == 45
REACTIVE_THRESHOLD == 5
PROACTIVE_CHECK_INTERVAL == 10
MAX_MIGRATIONS_PER_CYCLE == 2
MIGRATION_COST_PENALTY == 2
\* ProLBR_Agent.run: the warmup timeout, and the floor of "diff > 2".
WARMUP == 15
MIN_GAP == 2
\* Rewards are counted in halves: get_reward's factor 1.5 is 3 halves.
REWARD_UNIT == 2
IMBALANCE_PENALTY == 3
\* The latency rewards of get_reward, one per p99 band.
LATENCY_REWARDS == {15, 5, -5, -10, -20}
\* The p99 of the recent response times, in ms: the values around the bounds
\* of the bands.  NoP99 stands for a percentile that was not computed.
P99Inputs == {29, 30, 49, 50, 99, 100, 199, 200}
NoP99 == -1
\* The logger's period, and the gap between two printed lines.
LOG_INTERVAL == 10
LOG_PRINT_GAP == 60

Nodes == 0 .. (NUM_NODES - 1)
Chunks == 0 .. (NUM_CHUNKS - 1)
\* Cap on the requests outstanding in a run that keeps the value table.
MaxLoopOutstanding == 4
\* Requests the workload generator starts in a run that keeps every request.
MaxRequests == 3
\* Names simulation.py's run_simulation knows and main.py's does not.
OtherNames == {"q_table", "dqn"}
\* policy_due when no policy was started.
NoTimeout == -1
\* The initiator labels callers pass as balancer_type.
Labels == {"reactive", "proactive"}

\* Node.__init__ sets exactly these attributes; reading any other attribute of
\* a Node raises AttributeError.
NodeAttrs == {"env", "node_id", "proc_queue", "chunks"}
NoAttribute == "no attribute"
\* Passes of the learning loop, and the loads and the rewards (in halves) its
\* inputs are drawn from.
MaxQSteps == 2
LoadInputs == {0, 3, 4, 10, 13}
RewardInputs == {-9, 0, 10}
\* config.Q_TABLE_ALPHA and config.Q_TABLE_GAMMA, in parts of Q_DEN.
Q_DEN == 10
Q_TABLE_ALPHA == 1
Q_TABLE_GAMMA == 7
\* The random module before a stream is modelled, and first_run before a run
\* has ended.
Unseeded == [stream |-> <<>>, base |-> 0]
NoRun == [now |-> NoTimeout]
\* gap_seen before any gap was seen.
NoGap == -1
\* get_state of a cluster without load: (load_lvl, imb_lvl) = (1, 1).
IdleState == <<1, 1>>

VARIABLES
    now,                  \* env.now
    chunks,               \* chunks[n]: Node n's chunks set
    chunk_map,            \* Cluster.chunk_map
    chunks_in_migration,  \* Cluster.chunks_in_migration
    recently_migrated,    \* Cluster.recently_migrated (a dict: partial function)
    chunk_request_counts, \* chunk_request_counts[n]: that attribute of Node n
    inflight,             \* migrate_chunk processes suspended at their timeout,
                          \* in the order simpy will resume them
    users,                \* users[n]: len(proc_queue.users) of Node n
    queue,                \* queue[n]: len(proc_queue.queue) of Node n
    migrations_reactive,  \* metrics.migrations_reactive
    migrations_proactive, \* metrics.migrations_proactive
    responses,            \* len(metrics.response_times)
    p99_samples,          \* len(metrics.p99_samples) = len(metrics.load_samples)
    last_log_time,        \* metrics.last_log_time
    balancer_type,        \* run_simulation's argument: the policy and its label
    driver,               \* who steps the environment: env.run, or a caller of
                          \* env.step that catches what a step raises
    policy_due,           \* when the policy's pending timeout fires
    logger_due,           \* when the logger's pending timeout fires
    last_cost,            \* ProLBR_Agent.run's last_cost
    q_params,             \* whether config has ALPHA, GAMMA and EPSILON
    q_table,              \* the agent's q_table (a defaultdict: partial function)
    last_state,           \* the agent's last_state
    last_action,          \* the agent's last_action
    q_ticks,              \* passes of the learning loop so far
    alpha,                \* the agent's learning rate, in parts of Q_DEN
    gamma,                \* the agent's discount factor, in parts of Q_DEN
    error,                \* the exception an event handed to the caller of env.run
    completed_at,         \* history: when each chunk last changed owner
    moved_to,             \* history: the node each chunk was last moved to
    requests,             \* requests[n]: the process_request processes of Node
                          \* n that have not completed, in the order of
                          \* their proc_queue.request()
    samples,              \* metrics.response_times, in ms
    dispatched,           \* requests the workload generator has started
    rng,                  \* the random module: the stream its seed yields, and
                          \* the draws taken from it before this run started
    first_run,            \* history: the state the run before ended in
    gap_seen,             \* history: when, under the reactive policy, the gap
                          \* between two loads first exceeded the threshold
    last                  \* history: the operation performed by the last step

clusterVars == <<chunks, chunk_map, chunks_in_migration, recently_migrated,
                 chunk_request_counts>>
nodeVars == <<users, queue>>
metricVars == <<migrations_reactive, migrations_proactive>>
logVars == <<responses, p99_samples, last_log_time>>
qVars == <<q_table, last_state, last_action, q_ticks, alpha, gamma>>
traceVars == <<requests, samples, dispatched, rng, first_run>>
policyVars == <<policy_due, logger_due, last_cost, q_params, qVars>>
vars == <<now, chunks, chunk_map, chunks_in_migration, recently_migrated,
          chunk_request_counts, inflight, users, queue, migrations_reactive,
          migrations_proactive, responses, p99_samples, last_log_time,
          balancer_type, driver, policy_due, logger_due, last_cost, q_params,
          q_table, last_state, last_action, q_ticks, alpha, gamma, error,
          completed_at, moved_to, requests, samples, dispatched, rng,
          first_run, gap_seen,
          last>>

\* What a step records of the operation it performed.
Ev(op, c, f, t, r) ==
    [op |-> op, chunk |-> c, from_node |-> f, to_node |-> t, ret |-> r]

Min(S) == CHOOSE x \in S : \A y \in S : x <= y
Max(S) == CHOOSE x \in S : \A y \in S : x >= y
Range(s) == {s[i] : i \in DOMAIN s}

(* ------------------------------ Cluster -------------------------------- *)
\* Cluster.__init__: round-robin placement.
InitChunks == [n \in Nodes |-> {i \in Chunks : i % NUM_NODES = n}]
\* Variant: contiguous blocks of chunks per node.
InitChunkMap_Blocks == [i \in Chunks |-> (i * NUM_NODES) \div NUM_CHUNKS]
InitChunkMap == [i \in Chunks |-> i % NUM_NODES]

\* Node.__init__ creates no chunk_request_counts.
InitRequestCounts ==
    [n \in Nodes |-> IF "chunk_request_counts" \in NodeAttrs
                     THEN [c \in Chunks |-> 0] ELSE NoAttribute]

\* Variant: a chunk in migration is looked up at the migration's target.
get_node_for_chunk_Redirect(c) ==
    IF \E i \in DOMAIN inflight : inflight[i].chunk = c
    THEN inflight[CHOOSE i \in DOMAIN inflight : inflight[i].chunk = c].to_node
    ELSE chunk_map[c]

get_node_for_chunk(c) == chunk_map[c]

\* Variant: the request that holds the slot counts.
get_load_Uncompleted(n) == users[n] + queue[n]

\* Node.get_load
get_load(n) == queue[n]
get_node_loads == [n \in Nodes |-> get_load(n)]

\* Variant: ties go to the lowest node id.
LeastLoadedNodes_First ==
    {CHOOSE n \in Nodes :
        /\ get_node_loads[n] = Min(Range(get_node_loads))
        /\ \A m \in Nodes :
               get_node_loads[m] = Min(Range(get_node_loads)) => n <= m}

\* The nodes get_least_loaded_node chooses among, with random.choice.
LeastLoadedNodes ==
    {n \in Nodes : get_node_loads[n] = Min(Range(get_node_loads))}

\* Variants of the cooldown test: one second short, and with <= for <.
InCooldown_Short(c) ==
    /\ c \in DOMAIN recently_migrated
    /\ now - recently_migrated[c] < migration_cooldown - 1
InCooldown_Inclusive(c) ==
    /\ c \in DOMAIN recently_migrated
    /\ now - recently_migrated[c] <= migration_cooldown

\* now - recently_migrated[c] < migration_cooldown
InCooldown(c) ==
    /\ c \in DOMAIN recently_migrated
    /\ now - recently_migrated[c] < migration_cooldown

\* Variant: the in-migration test left out.
can_migrate_chunk_NoMarkerTest(c) == ~InCooldown(c)

can_migrate_chunk(c) ==
    IF c \in chunks_in_migration THEN FALSE
    ELSE IF InCooldown(c) THEN FALSE
    ELSE TRUE

\* Variant: every chunk of the node, eligible or not.
Available_Unfiltered(n) == chunks[n]

\* available_chunks of get_hottest_chunk, and "available" of the policies.
Available(n) == {c \in chunks[n] : can_migrate_chunk(c)}

\* get_hottest_chunk: None without an eligible chunk; otherwise max() calls the
\* key, which reads node.chunk_request_counts.
get_hottest_chunk(n) ==
    IF Available(n) = {} THEN "None"
    ELSE IF chunk_request_counts[n] = NoAttribute THEN "AttributeError"
    ELSE CHOOSE c \in Available(n) :
             \A d \in Available(n) :
                 chunk_request_counts[n][d] <= chunk_request_counts[n][c]

\* Variants: one of the two checks left out.
Accepts_NoSameNodeCheck(c, f, t) == c \in chunks[f]
Accepts_NoOwnerCheck(c, f, t) == f # t

\* The two checks migrate_chunk makes before it records anything.
Accepts(c, f, t) ==
    /\ f # t
    /\ c \in chunks[f]

\* metrics.record_migration, k times.
record_migration(b, k) ==
    /\ migrations_reactive' =
           IF b = "reactive" THEN migrations_reactive + k ELSE migrations_reactive
    /\ migrations_proactive' =
           IF b = "reactive" THEN migrations_proactive
           ELSE IF b = "proactive" THEN migrations_proactive + k
           ELSE migrations_proactive

\* Variant: ownership moves when the migration is accepted.
ChunksAtAcceptance_Eager(acc, f, t) ==
    [n \in Nodes |-> IF n = t THEN chunks[n] \cup Range(acc)
                     ELSE IF n = f THEN chunks[n] \ Range(acc)
                     ELSE chunks[n]]

\* Lines 78-81 leave every chunks set as it is.
ChunksAtAcceptance(acc, f, t) == chunks

\* env.process(migrate_chunk(c, f, t, b)) for each c of cs in turn, each up to
\* its yield.  simpy starts a process at the instant of the call, before any
\* timeout due at that instant.
StartMigrations(cs, f, t, b) ==
    LET acc == SelectSeq(cs, LAMBDA c : Accepts(c, f, t))
    IN  /\ migrations_reactive + migrations_proactive + Len(acc) <= MaxMigrations
        /\ record_migration(b, Len(acc))
        /\ chunks_in_migration' = chunks_in_migration \cup Range(acc)
        /\ inflight' = inflight \o
               [i \in 1 .. Len(acc) |->
                   [chunk |-> acc[i], from_node |-> f, to_node |-> t,
                    due |-> now + MIGRATION_TIME,
                    eligible |-> can_migrate_chunk(acc[i])]]
        /\ chunks' = ChunksAtAcceptance(acc, f, t)
        /\ UNCHANGED <<chunk_map, recently_migrated, chunk_request_counts>>

\* One migrate_chunk call, up to its yield or its return.
migrate_chunk(c, f, t, b) ==
    /\ StartMigrations(<<c>>, f, t, b)
    /\ last' = Ev("migrate_chunk", c, f, t,
                  IF Accepts(c, f, t) THEN "accepted" ELSE "returned")
    /\ UNCHANGED <<now, error, completed_at, moved_to, gap_seen, traceVars>>

\* Variant: the chunk is added to to_node and not removed from from_node.
ChunksAfterTransfer_NoRemove(c, f, t) ==
    [n \in Nodes |-> IF n = t THEN chunks[n] \cup {c} ELSE chunks[n]]

\* The ownership transfer of lines 84-87, as the values after it.
ChunksAfterTransfer(c, f, t) ==
    [n \in Nodes |-> IF n = t THEN chunks[n] \cup {c}
                     ELSE IF n = f THEN chunks[n] \ {c}
                     ELSE chunks[n]]
ChunkMapAfterTransfer(c, t) == [chunk_map EXCEPT ![c] = t]
Stamped(c) ==
    [x \in DOMAIN recently_migrated \cup {c} |->
        IF x = c THEN now ELSE recently_migrated[x]]

\* Variant: no re-check.
StillOwned_Unchecked(c, f) == TRUE

\* The re-check after the timeout (line 83).
StillOwned(c, f) == c \in chunks[f]

\* migrate_chunk from its yield to its end, for the process simpy resumes next.
\* Line 91 reads from_node.chunk_request_counts: on a Node without that
\* attribute the process ends there with AttributeError, after lines 84-87 and
\* before lines 93-94; simpy hands the exception to the caller of env.run.
migrate_chunk_resume ==
    /\ inflight # <<>>
    /\ Head(inflight).due = now
    /\ LET p == Head(inflight)
           c == p.chunk
           f == p.from_node
           t == p.to_node
       IN  /\ inflight' = Tail(inflight)
           /\ IF StillOwned(c, f)
              THEN /\ chunks' = ChunksAfterTransfer(c, f, t)
                   /\ chunk_map' = ChunkMapAfterTransfer(c, t)
                   /\ recently_migrated' = Stamped(c)
                   /\ completed_at' =
                          [x \in DOMAIN completed_at \cup {c} |->
                              IF x = c THEN now ELSE completed_at[x]]
                   /\ moved_to' =
                          [x \in DOMAIN moved_to \cup {c} |->
                              IF x = c THEN t ELSE moved_to[x]]
                   /\ IF chunk_request_counts[f] = NoAttribute
                      THEN /\ error' = "AttributeError"
                           /\ UNCHANGED <<chunk_request_counts,
                                          chunks_in_migration>>
                           /\ last' = Ev("migrate_chunk_resume", c, f, t, "raised")
                      ELSE /\ chunk_request_counts' =
                                 [chunk_request_counts EXCEPT ![f][c] = 0]
                           /\ chunks_in_migration' = chunks_in_migration \ {c}
                           /\ error' = error
                           /\ last' = Ev("migrate_chunk_resume", c, f, t, "moved")
              ELSE /\ chunks_in_migration' = chunks_in_migration \ {c}
                   /\ last' = Ev("migrate_chunk_resume", c, f, t, "skipped")
                   /\ UNCHANGED <<chunks, chunk_map, recently_migrated,
                                  chunk_request_counts, error, completed_at,
                                  moved_to>>
    /\ UNCHANGED <<now, metricVars, gap_seen, traceVars>>

\* What the Cluster's own steps never touch.
RunFrame == UNCHANGED <<nodeVars, logVars, policyVars, balancer_type, driver>>

(* ------------------------- a driver of the API ------------------------- *)
\* A caller starts a migrate_chunk process with arguments of its choice.
CallMigrate ==
    /\ \E c \in Chunks, f \in Nodes, t \in Nodes :
           migrate_chunk(c, f, t, balancer_type)
    /\ RunFrame

\* A process due now is resumed; an exception it raises reaches the driver,
\* which goes on stepping the environment.
ResumeMigration ==
    /\ migrate_chunk_resume
    /\ RunFrame

\* A caller asks can_migrate_chunk.
CallCanMigrate ==
    /\ \E c \in Chunks :
           last' = Ev("can_migrate_chunk", c, 0, 0, can_migrate_chunk(c))
    /\ UNCHANGED <<now, clusterVars, inflight, metricVars, error,
                   completed_at, moved_to, gap_seen, traceVars>>
    /\ RunFrame

\* The instants at which the driver, itself a process, wakes to make calls.
WakeTimes == {0, 1, 27, 28}
\* Every instant an event is scheduled for: a migration's timeout, a wake-up.
Scheduled == {inflight[i].due : i \in DOMAIN inflight} \cup WakeTimes
\* env.step: the clock moves to the earliest scheduled instant, once every
\* process due now has been resumed.
Advance ==
    /\ \A i \in DOMAIN inflight : inflight[i].due > now
    /\ \E t \in Scheduled :
           /\ t > now
           /\ \A u \in Scheduled : u > now => t <= u
           /\ now' = t
    /\ last' = Ev("advance", 0, 0, 0, "none")
    /\ UNCHANGED <<clusterVars, inflight, metricVars, error, completed_at,
                   moved_to, gap_seen, traceVars>>
    /\ RunFrame

\* Cluster.__init__ and metrics.reset, before any process has run.
InitEnvironment ==
    /\ now = 0
    /\ chunks = InitChunks
    /\ chunk_map = InitChunkMap
    /\ chunks_in_migration = {}
    /\ recently_migrated = <<>>
    /\ chunk_request_counts = InitRequestCounts
    /\ inflight = <<>>
    /\ users = [n \in Nodes |-> 0]
    /\ queue = [n \in Nodes |-> 0]
    /\ migrations_reactive = 0
    /\ migrations_proactive = 0
    /\ responses = 0
    /\ p99_samples = 0
    /\ last_log_time = 0
    /\ last_cost = 0
    /\ error = "none"
    /\ completed_at = <<>>
    /\ moved_to = <<>>
    /\ gap_seen = NoGap
    /\ requests = [n \in Nodes |-> <<>>]
    /\ samples = <<>>
    /\ dispatched = 0
    /\ rng = Unseeded
    /\ first_run = NoRun
    /\ last = Ev("init", 0, 0, 0, "none")

\* The same, with the table and the last action of a new agent.
InitCluster ==
    /\ InitEnvironment
    /\ q_table = <<>>
    /\ last_action = 0
    /\ q_ticks = 0

\* No policy and no logger: their timeouts never fire.
Init ==
    /\ InitCluster
    /\ balancer_type \in Labels
    /\ driver = "env.step"
    /\ policy_due = 0
    /\ logger_due = 0
    /\ q_params = FALSE
    /\ last_state = IdleState
    /\ alpha = Q_TABLE_ALPHA
    /\ gamma = Q_TABLE_GAMMA

Next ==
    \/ CallMigrate
    \/ ResumeMigration
    \/ CallCanMigrate
    \/ Advance

Spec == Init /\ [][Next]_vars

(* --------------------------- run_simulation ---------------------------- *)
\* Node.process_request up to its service timeout, started by the workload
\* generator for a chunk it drew: the request takes the free slot of the node
\* get_node_for_chunk returns, or waits in proc_queue.queue.
process_request(n) ==
    /\ users' = [users EXCEPT ![n] = 1]
    /\ queue' = [queue EXCEPT ![n] = IF users[n] = 0 THEN @ ELSE @ + 1]

\* Node.process_request from the end of its service timeout: the slot is
\* released and granted to the next waiting request, and record_response
\* appends one response time.  responses counts them up to MaxResponses.
process_request_resume(n) ==
    /\ users' = [users EXCEPT ![n] = IF queue[n] > 0 THEN 1 ELSE 0]
    /\ queue' = [queue EXCEPT ![n] = IF @ > 0 THEN @ - 1 ELSE 0]
    /\ responses' = IF responses < MaxResponses THEN responses + 1 ELSE responses

\* The requests dispatched to the nodes of S and not yet completed.
RECURSIVE Outstanding(_)
Outstanding(S) ==
    IF S = {} THEN 0
    ELSE LET n == CHOOSE x \in S : TRUE
         IN  users[n] + queue[n] + Outstanding(S \ {n})

\* What the history keeps of the loads a step leaves.
ObserveGap ==
    gap_seen' =
        IF /\ gap_seen = NoGap
           /\ Max(Range(queue')) - Min(Range(queue')) > REACTIVE_THRESHOLD
        THEN now ELSE gap_seen

\* The run goes on: the end time is not reached and, under env.run, no
\* process has raised.  A caller of env.step that catches the exception of a
\* failed process goes on with the processes that are left.
Running ==
    /\ now < SIM_TIME
    /\ error = "none" \/ driver = "env.step"

\* No timeout is due at this whole second: what was due has been resumed, and
\* the steps that follow fall between this second and the next instant.
NothingDue ==
    /\ now # policy_due
    /\ now # logger_due
    /\ \A i \in DOMAIN inflight : inflight[i].due # now

\* workload_generator: one request, for a chunk of the hot list or any chunk.
Dispatch ==
    /\ Running
    /\ NothingDue
    /\ \E c \in Chunks :
           /\ Outstanding(Nodes) < MaxOutstanding
           /\ process_request(get_node_for_chunk(c))
           /\ last' = Ev("workload_generator", c, get_node_for_chunk(c),
                         get_node_for_chunk(c), "dispatched")
    /\ UNCHANGED <<now, clusterVars, inflight, metricVars, logVars,
                   balancer_type, driver, policyVars, error, completed_at,
                   moved_to>>

\* A node finishes the request it is serving.
Complete ==
    /\ Running
    /\ NothingDue
    /\ \E n \in Nodes :
           /\ users[n] = 1
           /\ process_request_resume(n)
           /\ last' = Ev("process_request", 0, n, n, "served")
    /\ UNCHANGED <<now, clusterVars, inflight, metricVars, p99_samples,
                   last_log_time, balancer_type, driver, policyVars, error,
                   completed_at, moved_to>>

Arrive == Dispatch /\ UNCHANGED <<gap_seen, traceVars>>
Serve == Complete /\ UNCHANGED <<gap_seen, traceVars>>

\* The same two steps, with the history of the gap kept.
ArriveObserved == Dispatch /\ ObserveGap /\ UNCHANGED traceVars
ServeObserved == Complete /\ ObserveGap /\ UNCHANGED traceVars

\* max(loads, key=loads.get) and min(loads, key=loads.get): the first key, in
\* the dict's order, that holds the extreme value.
MaxLoadNode ==
    Min({n \in Nodes : get_node_loads[n] = Max(Range(get_node_loads))})
MinLoadNode ==
    Min({n \in Nodes : get_node_loads[n] = Min(Range(get_node_loads))})

\* The lists "available" can be: the eligible chunks of node n in the order
\* the iteration of the set yields them, cut to k.
AvailableLists(n, k) ==
    {s \in UNION {[1 .. m -> Available(n)] : m \in 0 .. k} :
        /\ \A i, j \in DOMAIN s : i # j => s[i] # s[j]
        /\ Len(s) = k \/ Range(s) = Available(n)}

\* Variant: a gap one above the threshold does not trigger.
ExceedsThreshold_Lax(diff) == diff > REACTIVE_THRESHOLD + 1
\* Variant: a gap equal to the threshold triggers.
ExceedsThreshold_Inclusive(diff) == diff >= REACTIVE_THRESHOLD

\* if diff > config.REACTIVE_THRESHOLD
ExceedsThreshold(diff) == diff > REACTIVE_THRESHOLD

\* One pass of reactive_balancer's loop, from the end of its timeout to the
\* next yield.
reactive_balancer ==
    /\ Running
    /\ balancer_type = "reactive"
    /\ now = policy_due
    /\ policy_due' = now + REACTIVE_CHECK_INTERVAL
    /\ LET max_id == MaxLoadNode
           min_id == MinLoadNode
           diff == get_node_loads[max_id] - get_node_loads[min_id]
       IN  IF ExceedsThreshold(diff) /\ Available(max_id) # {}
           THEN \E chunk \in Available(max_id) :
                    /\ StartMigrations(<<chunk>>, max_id, min_id, "reactive")
                    /\ last' = Ev("reactive_balancer", <<chunk>>, max_id, min_id,
                                  "scheduled")
           ELSE /\ last' = Ev("reactive_balancer", <<>>, max_id, min_id, "idle")
                /\ UNCHANGED <<clusterVars, inflight, metricVars>>
    /\ UNCHANGED <<now, nodeVars, logVars, balancer_type, driver, logger_due,
                   last_cost, q_params, qVars, error, completed_at, moved_to,
                   gap_seen, traceVars>>

\* Variant: any number of response times is enough.
EnoughSamples_Any(n) == TRUE

\* len(recent) >= 200, on the scale of the modelled run.
EnoughSamples(n) == n >= REWARD_MIN_SAMPLES

\* The latency reward of the band p99 falls in.
latency_reward(p99) ==
    IF p99 < 30 THEN 15
    ELSE IF p99 < 50 THEN 5
    ELSE IF p99 < 100 THEN -5
    ELSE IF p99 < 200 THEN -10
    ELSE -20

\* The percentiles np.percentile can return to get_reward: none when the
\* function returns before it computes one.
Percentiles == IF EnoughSamples(responses) THEN P99Inputs ELSE {NoP99}

\* ProLBR_Agent.get_reward, in halves: the imbalance penalty alone when no
\* percentile was computed, and otherwise plus the latency reward of the band
\* the p99 of the recent response times falls in.
get_reward(p99) ==
    LET imbalance == Max(Range(get_node_loads)) - Min(Range(get_node_loads))
        imbalance_penalty == -(imbalance * IMBALANCE_PENALTY)
    IN  IF p99 = NoP99 THEN imbalance_penalty
        ELSE imbalance_penalty + REWARD_UNIT * latency_reward(p99)

\* Variant: the cost of the last action is not subtracted.
RewardUsed_NoCost(observed, cost) == observed
\* reward = self.get_reward() - last_cost
RewardUsed(observed, cost) == observed - REWARD_UNIT * cost

\* last_cost after the loop over chunks_to_move.
CostOf(chunks_to_move) == MIGRATION_COST_PENALTY * Len(chunks_to_move)

\* What a tick of the agent records: the chunks it passed, the action, the
\* reward it observed and the reward it used.
Tick(cs, f, t, action, p99) ==
    [op |-> "ProLBR_Agent.run", chunk |-> cs, from_node |-> f, to_node |-> t,
     ret |-> action, p99 |-> p99, observed |-> get_reward(p99),
     reward |-> RewardUsed(get_reward(p99), last_cost)]

\* Variant: a gap equal to the floor counts.
MeaningfulGap_Inclusive(diff) == diff >= MIN_GAP
\* Variant: the gap is not tested.
MeaningfulGap_Any(diff) == TRUE

\* if diff > 2
MeaningfulGap(diff) == diff > MIN_GAP

\* One pass of ProLBR_Agent.run's loop.  The update of line 133 reads
\* config.ALPHA and config.GAMMA, the selection of line 138 config.EPSILON: on
\* a config without them the process ends with AttributeError.  With EPSILON
\* above 0 both actions can be selected in any state.
ProLBR_Agent_run ==
    /\ Running
    /\ balancer_type = "proactive"
    /\ now = policy_due
    /\ IF ~q_params
       THEN /\ error' = "AttributeError"
            /\ last' = Ev("ProLBR_Agent.run", <<>>, 0, 0, "raised")
            /\ UNCHANGED <<clusterVars, inflight, metricVars, policy_due,
                           last_cost>>
       ELSE /\ policy_due' = now + PROACTIVE_CHECK_INTERVAL
            /\ error' = error
            /\ \E action \in {0, 1}, to_node \in LeastLoadedNodes,
                  p99 \in Percentiles :
                   LET from_id == MaxLoadNode
                       diff == get_node_loads[from_id] - get_node_loads[to_node]
                   IN  IF /\ action = 1
                          /\ MeaningfulGap(diff)
                          /\ chunks[from_id] # {}
                          /\ Available(from_id) # {}
                       THEN \E chunks_to_move \in
                                AvailableLists(from_id, MAX_MIGRATIONS_PER_CYCLE) :
                                /\ StartMigrations(chunks_to_move, from_id,
                                                   to_node, "proactive")
                                /\ last_cost' = CostOf(chunks_to_move)
                                /\ last' = Tick(chunks_to_move, from_id,
                                                to_node, action, p99)
                       ELSE /\ last_cost' = 0
                            /\ last' = Tick(<<>>, from_id, to_node, action,
                                            p99)
                            /\ UNCHANGED <<clusterVars, inflight, metricVars>>
    /\ UNCHANGED <<now, nodeVars, logVars, balancer_type, driver, logger_due,
                   q_params, qVars, completed_at, moved_to, gap_seen,
                   traceVars>>

\* One pass of the logger's loop: metrics.log_metrics.
logger ==
    /\ Running
    /\ now = logger_due
    /\ logger_due' = now + LOG_INTERVAL
    /\ IF responses < LOG_MIN_SAMPLES
       THEN /\ last' = Ev("logger", 0, 0, 0, "returned")
            /\ UNCHANGED <<p99_samples, last_log_time>>
       ELSE /\ p99_samples' = p99_samples + 1
            /\ last_log_time' =
                   IF now - last_log_time > LOG_PRINT_GAP THEN now ELSE last_log_time
            /\ last' = Ev("logger", 0, 0, 0, "sampled")
    /\ UNCHANGED <<now, clusterVars, inflight, nodeVars, metricVars,
                   responses, balancer_type, driver, policy_due, last_cost,
                   q_params, qVars, error, completed_at, moved_to,
                   gap_seen, traceVars>>

\* A process calls one of the Cluster's query operations.  An exception the
\* call raises ends that process and the run.
Query ==
    /\ Running
    /\ NothingDue
    /\ \/ /\ last' = Ev("get_node_loads", 0, 0, 0, get_node_loads)
          /\ error' = error
       \/ \E n \in LeastLoadedNodes :
              /\ last' = Ev("get_least_loaded_node", 0, 0, 0, n)
              /\ error' = error
       \/ \E n \in Nodes :
              /\ last' = Ev("get_hottest_chunk", 0, n, n, get_hottest_chunk(n))
              /\ error' = IF Available(n) # {} /\ chunk_request_counts[n] = NoAttribute
                          THEN "AttributeError" ELSE error
       \/ \E c \in Chunks :
              /\ last' = Ev("can_migrate_chunk", c, 0, 0, can_migrate_chunk(c))
              /\ error' = error
       \/ \E c \in Chunks :
              /\ last' = Ev("get_node_for_chunk", c, 0, 0, get_node_for_chunk(c))
              /\ error' = error
    /\ UNCHANGED <<now, clusterVars, inflight, nodeVars, metricVars, logVars,
                   balancer_type, driver, policyVars, completed_at, moved_to,
                   gap_seen, traceVars>>

\* A migrate_chunk process due now is resumed.
RunResume ==
    /\ Running
    /\ migrate_chunk_resume
    /\ RunFrame

\* Variant: the logger's timeout is not among the pending ones.
Pending_NoLogger ==
    {inflight[i].due : i \in DOMAIN inflight}
        \cup (IF balancer_type \in Labels THEN {policy_due} ELSE {})

\* env.step: the clock moves to the earliest pending timeout, or to the end of
\* the run.
Pending ==
    {inflight[i].due : i \in DOMAIN inflight} \cup {logger_due}
        \cup (IF balancer_type \in Labels THEN {policy_due} ELSE {})
RunAdvance ==
    /\ Running
    /\ \A t \in Pending : t > now
    /\ now' = Min(Pending \cup {SIM_TIME})
    /\ last' = Ev("advance", 0, 0, 0, "none")
    /\ UNCHANGED <<clusterVars, inflight, nodeVars, metricVars, logVars,
                   balancer_type, driver, policyVars, error, completed_at,
                   moved_to, gap_seen, traceVars>>

\* run_simulation up to env.run: metrics.reset, Cluster(env), and the first
\* timeouts of the policy and of the logger.
RunInit ==
    /\ InitCluster
    /\ balancer_type \in Labels
    /\ policy_due = IF balancer_type = "reactive" THEN REACTIVE_CHECK_INTERVAL
                    ELSE WARMUP
    /\ logger_due = LOG_INTERVAL
    /\ q_params \in BOOLEAN
    /\ last_state = IdleState
    /\ alpha = Q_TABLE_ALPHA
    /\ gamma = Q_TABLE_GAMMA
    /\ driver = "env.run"

RunNext ==
    \/ Arrive
    \/ Serve
    \/ reactive_balancer
    \/ ProLBR_Agent_run
    \/ logger
    \/ Query
    \/ RunResume
    \/ RunAdvance

SpecRun == RunInit /\ [][RunNext]_vars

\* The same processes on an environment stepped by a caller that catches what
\* a step raises, with config.ALPHA, GAMMA and EPSILON set as
\* hyperparam_sweep sets them.
StepInit ==
    /\ InitCluster
    /\ balancer_type \in Labels
    /\ policy_due = IF balancer_type = "reactive" THEN REACTIVE_CHECK_INTERVAL
                    ELSE WARMUP
    /\ logger_due = LOG_INTERVAL
    /\ q_params = TRUE
    /\ last_state = IdleState
    /\ alpha = Q_TABLE_ALPHA
    /\ gamma = Q_TABLE_GAMMA
    /\ driver = "env.step"

StepNext ==
    \/ Arrive
    \/ Serve
    \/ reactive_balancer
    \/ ProLBR_Agent_run
    \/ logger
    \/ RunResume
    \/ RunAdvance

SpecStep == StepInit /\ [][StepNext]_vars

\* run_simulation('reactive'), with the history of the gap kept.
ReactiveInit ==
    /\ RunInit
    /\ balancer_type = "reactive"
    /\ q_params = FALSE

ReactiveNext ==
    \/ ArriveObserved
    \/ ServeObserved
    \/ reactive_balancer
    \/ logger
    \/ RunResume
    \/ RunAdvance

SpecReactive == ReactiveInit /\ [][ReactiveNext]_vars

\* Variant: the slot goes to the request that asked last.
Granted_Last(waiting) == Len(waiting)

\* The position, in the order of their requests, of the waiting process a
\* released slot is granted to: simpy.Resource grants in that order.
Granted(waiting) == 1

\* Variant: the processes that wait are lost with the one that completes.
AfterRelease_Drop(rs) == <<>>

\* The processes of a node once the one that holds the slot, the first, has
\* completed and the slot was granted to one of those that wait.
AfterRelease(rs) ==
    LET waiting == Tail(rs)
        g == Granted(waiting)
    IN  IF waiting = <<>> THEN <<>>
        ELSE <<waiting[g]>> \o SubSeq(waiting, 1, g - 1)
                 \o SubSeq(waiting, g + 1, Len(waiting))

\* Node.process_request as the process it is: start_time = self.env.now, and
\* the request for the slot, at the end of the node's requests.
TraceDispatch ==
    /\ dispatched < MaxRequests
    /\ dispatched' = dispatched + 1
    /\ requests' =
           [requests EXCEPT ![last'.to_node] =
                Append(@, [id |-> dispatched + 1, chunk |-> last'.chunk,
                           node |-> last'.to_node, start_time |-> now])]
    /\ samples' = samples
    /\ UNCHANGED <<rng, first_run>>

\* The process that holds the slot of the node ends: record_response appends
\* (end_time - start_time) * 1000.0, and the slot is granted again.
TraceComplete ==
    LET n == last'.from_node
    IN  /\ samples' = Append(samples, (now - Head(requests[n]).start_time) * 1000)
        /\ requests' = [requests EXCEPT ![n] = AfterRelease(@)]
        /\ dispatched' = dispatched
        /\ UNCHANGED <<rng, first_run>>

ArriveTraced == Dispatch /\ TraceDispatch /\ UNCHANGED gap_seen
ServeTraced == Complete /\ TraceComplete /\ UNCHANGED gap_seen

\* A caller starts a migration while none was accepted yet.
MigrateOnce ==
    /\ migrations_reactive + migrations_proactive = 0
    /\ CallMigrate

\* The workload generator, the nodes and one migration, on an environment
\* stepped by a caller, with every request kept.
NodeInit ==
    /\ InitCluster
    /\ balancer_type = "reactive"
    /\ policy_due = NoTimeout
    /\ logger_due = NoTimeout
    /\ q_params = FALSE
    /\ last_state = IdleState
    /\ alpha = Q_TABLE_ALPHA
    /\ gamma = Q_TABLE_GAMMA
    /\ driver = "env.step"

NodeNext ==
    \/ ArriveTraced
    \/ ServeTraced
    \/ MigrateOnce
    \/ ResumeMigration
    \/ Advance

SpecNode == NodeInit /\ [][NodeNext]_vars

\* The same, with the environment's guarantee that a timeout that is due is
\* processed: the service timeout of each node's holder, and the timeout of
\* a migration.
NodeFairness ==
    /\ \A n \in Nodes : WF_vars(ServeTraced /\ last'.from_node = n)
    /\ WF_vars(ResumeMigration)

SpecNodeLive == SpecNode /\ NodeFairness

\* main.py's run_simulation called with a name that is neither 'reactive' nor
\* 'proactive': lines 33-36 start no policy and raise nothing, and the
\* workload generator and the logger run under env.run.
NoPolicyInit ==
    /\ InitCluster
    /\ balancer_type \in OtherNames
    /\ policy_due = NoTimeout
    /\ logger_due = LOG_INTERVAL
    /\ q_params = FALSE
    /\ last_state = IdleState
    /\ alpha = Q_TABLE_ALPHA
    /\ gamma = Q_TABLE_GAMMA
    /\ driver = "env.run"

NoPolicyNext ==
    \/ Arrive
    \/ Serve
    \/ logger
    \/ RunAdvance

SpecNoPolicy == NoPolicyInit /\ [][NoPolicyNext]_vars

(* ------------------------------ the value table ------------------------ *)
\* The run specifications above do not keep the agent's value table: with
\* EPSILON above 0 the selection of line 138 can return either action whatever
\* the table holds.  The table is kept by the specification below, which
\* applies the update and the selection of one pass of the loop to states and
\* rewards drawn from bounded sets.

\* Value estimates are exact rationals counted in units of 1 / Q_UNIT, a
\* reward of one half being Q_UNIT \div REWARD_UNIT units; MaxQSteps updates
\* stay in whole units.  The rounding of float64 is not modelled.
Q_UNIT == REWARD_UNIT * (Q_DEN * Q_DEN) ^ MaxQSteps

Actions == {0, 1}
SweepAlphas == {1, 3, 5}
SweepGammas == {7, 9}
\* Calls of update_model on one sample: as many as stay in whole units.
MaxPresentations == 2 * MaxQSteps - 1
\* The new states a sample is drawn from, the state of the agent among them,
\* and the tables the agent starts the calls with: no entry, or estimates for
\* those states.
NextStateInputs == {<<2, 2>>, IdleState}
QValueInputs == {r * (Q_UNIT \div REWARD_UNIT) : r \in RewardInputs}
TableInputs ==
    {<<>>} \cup [NextStateInputs -> QValueInputs \X QValueInputs]
QStates == (1..4) \X (1..3)
LoadsInputs == [Nodes -> LoadInputs]

\* ProLBR_Agent.get_state on the loads get_node_loads returned.
get_state(loads) ==
    LET max_load == Max(Range(loads))
        imbalance == Max(Range(loads)) - Min(Range(loads))
        load_lvl == IF max_load <= 3 THEN 1
                    ELSE IF max_load <= 7 THEN 2
                    ELSE IF max_load <= 12 THEN 3
                    ELSE 4
        imb_lvl == IF imbalance <= 2 THEN 1
                   ELSE IF imbalance <= 6 THEN 2
                   ELSE 3
    IN  <<load_lvl, imb_lvl>>

\* np.zeros(2): the entry the defaultdict makes for a missing key.
Zeros == <<0, 0>>

\* Variant: the read keeps no other key.
Read_Fresh(q, state) ==
    [s \in {state} |-> IF s \in DOMAIN q THEN q[s] ELSE Zeros]

\* The table after q_table[state] was read: a missing key gets its entry.
Read(q, state) ==
    [s \in DOMAIN q \cup {state} |-> IF s \in DOMAIN q THEN q[s] ELSE Zeros]

\* q_table[state][action] as a read would return it, without the insertion.
Q(q, state, action) ==
    IF state \in DOMAIN q THEN q[state][action + 1] ELSE 0

\* Variant: the update is written to both actions of the previous state.
Written_Both(entry, action, value) == <<value, value>>

\* The entry after q_table[last_state][last_action] was assigned.
Written(entry, action, value) == [entry EXCEPT ![action + 1] = value]

\* Variant: the increment is subtracted.
Stepped_Away(old, delta) == old - delta \div (Q_DEN * Q_DEN)

\* old += delta, delta being counted in parts of Q_DEN * Q_DEN.
Stepped(old, delta) == old + delta \div (Q_DEN * Q_DEN)

\* QTableAgent.update_model, and lines 132-135 of ProLBR_Agent.run: best_q is
\* read from the table before the assignment.
update_model(q, s, a, reward, new_state) ==
    LET q1 == Read(q, new_state)
        best_q == Max(Range(q1[new_state]))
        q2 == Read(q1, s)
        old == q2[s][a + 1]
        delta == alpha * (Q_DEN * reward + gamma * best_q - Q_DEN * old)
    IN  [q2 EXCEPT ![s] = Written(q2[s], a, Stepped(old, delta))]

\* Variant: the last index of the maximum.
argmax_Last(values) == IF values[2] >= values[1] THEN 1 ELSE 0

\* int(np.argmax(values)): the first index of the maximum.
argmax(values) == IF values[2] > values[1] THEN 1 ELSE 0

\* QTableAgent.choose_action, and lines 138-141 of ProLBR_Agent.run: explore
\* is the outcome of random.random() < EPSILON, pick that of randint(0, 1).
choose_action(q, state, explore, pick) ==
    IF explore THEN pick ELSE argmax(Read(q, state)[state])

\* What a pass of the learning loop records.
Learned(state, reward, explore, action) ==
    [op |-> "learn", state |-> state, reward |-> reward, explore |-> explore,
     ret |-> action]

\* The learning part of one pass of the loop (lines 126-141 and 169-170 of
\* ProLBR_Agent.run, steps 1-4 and 6 of QTableAgent.run): the new state, the
\* update for the previous state and action, the selection, the cycling.
learn ==
    /\ q_ticks < MaxQSteps
    /\ \E loads \in LoadsInputs, r \in RewardInputs, explore \in BOOLEAN,
          pick \in Actions :
           LET state == get_state(loads)
               reward == r * (Q_UNIT \div REWARD_UNIT)
               q == update_model(q_table, last_state, last_action, reward,
                                 state)
               action == choose_action(q, state, explore, pick)
           IN  /\ q_table' = Read(q, state)
               /\ last_state' = state
               /\ last_action' = action
               /\ last' = Learned(state, reward, explore, action)
    /\ q_ticks' = q_ticks + 1
    /\ UNCHANGED <<now, clusterVars, inflight, nodeVars, metricVars, logVars,
                   balancer_type, driver, policy_due, logger_due, last_cost,
                   q_params, alpha, gamma, error, completed_at, moved_to,
                   gap_seen, traceVars>>

\* The agent at the end of its warmup, in a state drawn from the inputs.
QInit ==
    /\ InitCluster
    /\ balancer_type = "proactive"
    /\ policy_due = WARMUP
    /\ logger_due = LOG_INTERVAL
    /\ q_params = TRUE
    /\ driver = "env.step"
    /\ last_state \in {get_state(loads) : loads \in LoadsInputs}
    /\ alpha = Q_TABLE_ALPHA
    /\ gamma = Q_TABLE_GAMMA

\* run_simulation called again, as main.py calls it for one policy after the
\* other: a new agent with a new q_table, at the end of its warmup.  The step
\* records how many entries the table of the run before held.
new_run ==
    /\ q_table' = <<>>
    /\ last_state' \in {get_state(loads) : loads \in LoadsInputs}
    /\ last_action' = 0
    /\ q_ticks' = 0
    /\ last' = Ev("run_simulation", 0, 0, 0, Cardinality(DOMAIN q_table))
    /\ UNCHANGED <<now, clusterVars, inflight, nodeVars, metricVars, logVars,
                   balancer_type, driver, policy_due, logger_due, last_cost,
                   q_params, alpha, gamma, error, completed_at, moved_to,
                   gap_seen, traceVars>>

QNext == learn \/ new_run

SpecQ == QInit /\ [][QNext]_vars

\* What a call of update_model records: the sample it was given and the
\* estimate it found.
Presented(reward, new_state, before) ==
    [op |-> "update_model", state |-> new_state, reward |-> reward,
     ret |-> before]

\* A caller of update_model presents one sample again and again: the state
\* and the action of the agent, a reward and a new state other than that
\* state, chosen at the first call.
present ==
    /\ q_ticks < MaxPresentations
    /\ \E r \in RewardInputs, new_state \in NextStateInputs :
           LET reward == r * (Q_UNIT \div REWARD_UNIT)
           IN  /\ new_state # last_state
               /\ last.op = "update_model" =>
                      reward = last.reward /\ new_state = last.state
               /\ q_table' = update_model(q_table, last_state, last_action,
                                          reward, new_state)
               /\ last' = Presented(reward, new_state,
                                    Q(q_table, last_state, last_action))
    /\ q_ticks' = q_ticks + 1
    /\ UNCHANGED <<now, clusterVars, inflight, nodeVars, metricVars, logVars,
                   balancer_type, driver, policy_due, logger_due, last_cost,
                   q_params, last_state, last_action, alpha, gamma, error,
                   completed_at, moved_to, gap_seen, traceVars>>

\* An agent built by a run of run_sweeps, which has set the learning rate and
\* the discount factor, with a table that holds estimates drawn from the
\* inputs.
SweepInit ==
    /\ InitEnvironment
    /\ balancer_type = "proactive"
    /\ policy_due = WARMUP
    /\ logger_due = LOG_INTERVAL
    /\ q_params = TRUE
    /\ driver = "env.step"
    /\ q_table \in TableInputs
    /\ last_state = IdleState
    /\ last_action \in Actions
    /\ q_ticks = 0
    /\ alpha \in SweepAlphas
    /\ gamma \in SweepGammas

SweepNext == present

SpecSweep == SweepInit /\ [][SweepNext]_vars

(* ------------------------------ properties ----------------------------- *)
InFlightOf(c) == {i \in DOMAIN inflight : inflight[i].chunk = c}
Owners(c) == {n \in Nodes : c \in chunks[n]}
\* What a step that is not a transfer leaves alone.
Untouched ==
    UNCHANGED <<now, clusterVars, inflight, nodeVars, metricVars, logVars,
                error>>

\* C1: every chunk id is in the chunks set of exactly one node, the node
\* chunk_map records for it.
C1_Ownership ==
    /\ DOMAIN chunk_map = Chunks
    /\ \A n \in Nodes : chunks[n] \subseteq Chunks
    /\ \A c \in Chunks : Owners(c) = {chunk_map[c]}
\* A transfer has just happened and the chunk is away from its first node.
C1_Witness ==
    /\ last.op = "migrate_chunk_resume"
    /\ last.chunk \in DOMAIN completed_at
    /\ chunk_map[last.chunk] # InitChunkMap[last.chunk]

\* C2 as stated: for any sequence of calls at most one migrate_chunk process
\* per chunk is in flight, and its chunk is in chunks_in_migration meanwhile.
C2_NoDoubleMigration ==
    \A c \in Chunks :
        /\ Cardinality(InFlightOf(c)) <= 1
        /\ InFlightOf(c) # {} => c \in chunks_in_migration
\* C2 amended: the same, for the chunks whose processes in flight were all
\* started while can_migrate_chunk was true.
C2_GuardedNoDouble ==
    \A c \in Chunks :
        (\A i \in InFlightOf(c) : inflight[i].eligible) =>
            /\ Cardinality(InFlightOf(c)) <= 1
            /\ InFlightOf(c) # {} => c \in chunks_in_migration
\* Midway through a migration started under the guard, the guard is false.
C2_Witness ==
    \E i \in DOMAIN inflight :
        /\ inflight[i].eligible
        /\ now > inflight[i].due - MIGRATION_TIME
        /\ now < inflight[i].due
        /\ ~can_migrate_chunk(inflight[i].chunk)

\* The migration the last step accepted.
JustAccepted == last.op = "migrate_chunk" /\ last.ret = "accepted"
\* C3 as stated: a migration of a chunk is accepted no sooner than
\* migration_cooldown after the chunk last changed owner.
C3_Cooldown ==
    (JustAccepted /\ last.chunk \in DOMAIN completed_at) =>
        now - completed_at[last.chunk] >= migration_cooldown
\* C3 amended: the same, for a migration started while can_migrate_chunk was
\* true.
C3_GuardedCooldown ==
    (/\ JustAccepted
     /\ last.chunk \in DOMAIN completed_at
     /\ inflight[Len(inflight)].eligible) =>
        now - completed_at[last.chunk] >= migration_cooldown
\* A chunk that changed owner before is accepted again under the guard.
C3_Witness ==
    /\ JustAccepted
    /\ last.chunk \in DOMAIN completed_at
    /\ inflight[Len(inflight)].eligible

\* C4: can_migrate_chunk is false exactly for a chunk in migration or one that
\* changed owner less than migration_cooldown ago, and asking changes nothing.
C4_Eligible(c) ==
    ~ \/ c \in chunks_in_migration
      \/ /\ c \in DOMAIN completed_at
         /\ now - completed_at[c] < migration_cooldown
C4_CanMigrate ==
    /\ [](\A c \in Chunks : can_migrate_chunk(c) = C4_Eligible(c))
    /\ [][last'.op = "can_migrate_chunk" =>
              /\ last'.ret = C4_Eligible(last'.chunk)
              /\ Untouched]_vars
\* Asked exactly migration_cooldown after the transfer, it answers true.
C4_Witness ==
    /\ last.op = "can_migrate_chunk"
    /\ last.chunk \in DOMAIN completed_at
    /\ now - completed_at[last.chunk] = migration_cooldown
    /\ last.ret = TRUE

\* C5: a call with from_node = to_node changes nothing and starts no process.
C5_SameNodeNoOp ==
    [][(last'.op = "migrate_chunk" /\ last'.from_node = last'.to_node) =>
           /\ last'.ret = "returned"
           /\ Untouched]_vars
\* Such a call for a chunk from_node owns, while another migration is in flight.
C5_Witness ==
    /\ last.op = "migrate_chunk"
    /\ last.from_node = last.to_node
    /\ last.chunk \in chunks[last.from_node]
    /\ inflight # <<>>

\* C6: a call for a chunk from_node does not own changes nothing and starts no
\* process.
C6_StaleSourceNoOp ==
    [][(last'.op = "migrate_chunk" /\ last'.chunk \notin chunks[last'.from_node]) =>
           /\ last'.ret = "returned"
           /\ Untouched]_vars
\* Such a call naming the chunk's first owner after the chunk has moved away.
C6_Witness ==
    /\ last.op = "migrate_chunk"
    /\ last.from_node # last.to_node
    /\ last.from_node = InitChunkMap[last.chunk]
    /\ chunk_map[last.chunk] # last.from_node

\* C7: a process that resumes with its chunk still on from_node moves the
\* chunk, stamps it and resets its request counter on from_node, in one step.
C7_SuccessfulCompletion ==
    [][(last'.op = "migrate_chunk_resume"
            /\ last'.chunk \in chunks[last'.from_node]) =>
           /\ {n \in Nodes : last'.chunk \in chunks'[n]} = {last'.to_node}
           /\ chunk_map'[last'.chunk] = last'.to_node
           /\ recently_migrated'[last'.chunk] = now
           /\ chunk_request_counts'[last'.from_node] # NoAttribute
           /\ chunk_request_counts'[last'.from_node][last'.chunk] = 0]_vars

\* C8: a process that resumes with its chunk no longer on from_node changes no
\* ownership and no stamp, clears the marker and starts nothing.
C8_RacedCompletion ==
    [][(last'.op = "migrate_chunk_resume"
            /\ last'.chunk \notin chunks[last'.from_node]) =>
           /\ UNCHANGED <<chunks, chunk_map, recently_migrated, metricVars,
                          now>>
           /\ last'.chunk \notin chunks_in_migration'
           /\ inflight' = Tail(inflight)]_vars
\* A process found its chunk gone.
C8_Witness ==
    /\ last.op = "migrate_chunk_resume"
    /\ last.ret = "skipped"
    /\ last.chunk \notin chunks[last.from_node]

\* C9: the step that ends a migrate_chunk process leaves its chunk out of
\* chunks_in_migration.
C9_RunsToCompletion ==
    [][last'.op = "migrate_chunk_resume" =>
           last'.chunk \notin chunks_in_migration']_vars

\* C10: chunk_map and every node's chunks set change only in the completion
\* step of a migrate_chunk process; request arrival and service, migration
\* acceptance, the policy ticks, the logger and the query operations leave
\* them as they are.
C10_Frame ==
    [][(chunks' # chunks \/ chunk_map' # chunk_map)
          => last'.op = "migrate_chunk_resume"]_vars
\* A policy-scheduled migration has completed and changed the owner of its
\* chunk, after requests were dispatched and served.
C10_Witness ==
    /\ last.op = "migrate_chunk_resume"
    /\ chunk_map # InitChunkMap
    /\ chunks # InitChunks
    /\ responses > 0
    /\ migrations_reactive + migrations_proactive > 0

\* C11: a request for chunk c is dispatched to the node chunk_map[c] records at
\* that instant and joins that node only: to the source while a migration of c
\* is in flight, to the target from the completion on.
C11_Routing ==
    [][last'.op = "workload_generator" =>
          LET c == last'.chunk
              n == last'.to_node
          IN  /\ n = chunk_map[c]
              /\ users'[n] + queue'[n] = users[n] + queue[n] + 1
              /\ \A m \in Nodes \ {n} : users'[m] = users[m] /\ queue'[m] = queue[m]
              /\ \A i \in InFlightOf(c) :
                     /\ n = inflight[i].from_node
                     /\ n # inflight[i].to_node
              /\ (c \in DOMAIN moved_to /\ InFlightOf(c) = {}) => n = moved_to[c]
      ]_vars
\* A request for a chunk that a completed migration moved goes to the target.
C11_Witness ==
    /\ last.op = "workload_generator"
    /\ last.chunk \in DOMAIN moved_to
    /\ last.to_node = moved_to[last.chunk]
    /\ last.to_node # InitChunkMap[last.chunk]
    /\ queue[last.to_node] > 0

\* C12: right after Cluster construction chunk i is owned by node i mod
\* NUM_NODES (chunk 0 by node 0, chunk 1 by node 1), no chunk is in migration
\* and none has a cooldown stamp.
C12_InitialPlacement ==
    last.op = "init" =>
        /\ \A i \in Chunks :
               /\ get_node_for_chunk(i) \in Nodes
               /\ \E k \in 0 .. NUM_CHUNKS :
                      i = k * NUM_NODES + get_node_for_chunk(i)
               /\ Owners(i) = {get_node_for_chunk(i)}
        /\ get_node_for_chunk(0) = 0
        /\ get_node_for_chunk(1) = 1
        /\ chunks_in_migration = {}
        /\ DOMAIN recently_migrated = {}
        /\ \A i \in Chunks : can_migrate_chunk(i)
\* The fresh cluster, where the placement has wrapped around the nodes.
C12_Witness ==
    /\ last.op = "init"
    /\ now = 0
    /\ \E i \in Chunks : i >= NUM_NODES /\ get_node_for_chunk(i) = i - NUM_NODES

\* C13: get_hottest_chunk(node_id) never fails; it returns None exactly when
\* node_id owns no eligible chunk, and otherwise an eligible chunk of node_id
\* whose request count is at least that of every other eligible chunk.
C13_HottestChunk ==
    [][last'.op = "get_hottest_chunk" =>
          LET n == last'.from_node
              eligible == {c \in Chunks : c \in chunks[n] /\ can_migrate_chunk(c)}
          IN  /\ error' = error
              /\ IF eligible = {} THEN last'.ret = "None"
                 ELSE /\ last'.ret \in eligible
                      /\ \A d \in eligible :
                             chunk_request_counts[n][d]
                                 <= chunk_request_counts[n][last'.ret]
      ]_vars

\* C14: get_least_loaded_node returns a node of minimum load, can return every
\* node tied at the minimum, and changes nothing.
C14_LeastLoaded ==
    /\ [][last'.op = "get_least_loaded_node" =>
              /\ \A m \in Nodes : queue[last'.ret] <= queue[m]
              /\ Untouched]_vars
    /\ [](\A n \in Nodes :
             (/\ Running
              /\ NothingDue
              /\ \A m \in Nodes : queue[n] <= queue[m]) =>
                 ENABLED (Query /\ last' = Ev("get_least_loaded_node", 0, 0, 0, n)))
\* With both nodes loaded alike, the call returned the higher node id.
C14_Witness ==
    /\ last.op = "get_least_loaded_node"
    /\ last.ret # 0
    /\ queue[0] = queue[last.ret]
    /\ queue[0] > 0

\* The largest gap between two nodes' loads, and the eligible chunks of a node.
LoadGap == Max({queue[n] : n \in Nodes}) - Min({queue[n] : n \in Nodes})
EligibleOn(n) ==
    {c \in Chunks :
        /\ c \in chunks[n]
        /\ c \notin chunks_in_migration
        /\ c \in DOMAIN recently_migrated =>
               now - recently_migrated[c] >= migration_cooldown}
\* The step appended exactly the migrations of the chunks cs, from f to t.
ScheduledExactly(cs, f, t) ==
    /\ Len(inflight') = Len(inflight) + Len(cs)
    /\ \A i \in DOMAIN inflight : inflight'[i] = inflight[i]
    /\ \A i \in DOMAIN cs :
           LET p == inflight'[Len(inflight) + i]
           IN  /\ p.chunk = cs[i]
               /\ p.from_node = f
               /\ p.to_node = t
               /\ p.due = now + MIGRATION_TIME
    /\ chunks_in_migration' = chunks_in_migration \cup Range(cs)

PolicyPasses ==
    /\ last'.op \in {"reactive_balancer", "ProLBR_Agent.run"}
    /\ Len(last'.chunk) > 0

\* C16: every chunk a policy passes to migrate_chunk is an eligible chunk of
\* the overloaded node whose request count is the highest among that node's
\* eligible chunks not already selected in the same tick.
C16_HottestSelected ==
    [][PolicyPasses =>
          LET f == last'.from_node
              cs == last'.chunk
          IN  \A i \in DOMAIN cs :
                  /\ cs[i] \in EligibleOn(f)
                  /\ chunk_request_counts[f] # NoAttribute
                  /\ \A d \in EligibleOn(f) \ {cs[j] : j \in 1 .. (i - 1)} :
                         chunk_request_counts[f][d]
                             <= chunk_request_counts[f][cs[i]]
      ]_vars

\* C17 as stated: once the gap has exceeded REACTIVE_THRESHOLD, a reactive
\* migration is accepted no later than REACTIVE_CHECK_INTERVAL after that.
C17_BoundedResponse ==
    (gap_seen # NoGap /\ now > gap_seen + REACTIVE_CHECK_INTERVAL) =>
        migrations_reactive > 0
\* C17 amended: a gap above the threshold at the instant of a check, on a node
\* with an eligible chunk, has a migration accepted at that check; the checks
\* are REACTIVE_CHECK_INTERVAL apart.
C17_ResponseAtCheck ==
    [][(/\ last'.op = "reactive_balancer"
        /\ LoadGap > REACTIVE_THRESHOLD
        /\ EligibleOn(last'.from_node) # {}) =>
           /\ gap_seen # NoGap
           /\ gap_seen <= now
           /\ migrations_reactive' = migrations_reactive + 1
           /\ inflight' # <<>>
           /\ inflight'[Len(inflight')].due = now + MIGRATION_TIME
           /\ policy_due = now
           /\ policy_due' = now + REACTIVE_CHECK_INTERVAL
      ]_vars
\* A gap that formed in the first seconds and was still there at the first
\* check had its migration accepted REACTIVE_CHECK_INTERVAL after it formed.
C17_Witness ==
    /\ last.op = "reactive_balancer"
    /\ last.ret = "scheduled"
    /\ gap_seen = 0
    /\ now = gap_seen + REACTIVE_CHECK_INTERVAL
    /\ migrations_reactive = 1

\* C18: a tick of the RL agent schedules migrations only on action 1 and with
\* the most-loaded node more than 2 above the selected least-loaded node; at
\* most MAX_MIGRATIONS_PER_CYCLE chunks, each eligible and owned by the
\* overloaded node, all from it to the underloaded node.  On action 0 the tick
\* changes no cluster state.
C18_MigrateGuard ==
    [][last'.op = "ProLBR_Agent.run" =>
          LET f == last'.from_node
              t == last'.to_node
              cs == last'.chunk
          IN  /\ \A m \in Nodes : queue[m] <= queue[f] /\ queue[t] <= queue[m]
              /\ Len(cs) > 0 => (last'.ret = 1 /\ queue[f] - queue[t] > 2)
              /\ Len(cs) <= MAX_MIGRATIONS_PER_CYCLE
              /\ \A i \in DOMAIN cs : cs[i] \in EligibleOn(f)
              /\ \A i, j \in DOMAIN cs : i # j => cs[i] # cs[j]
              /\ ScheduledExactly(cs, f, t)
              /\ migrations_proactive' = migrations_proactive + Len(cs)
              /\ UNCHANGED <<chunks, chunk_map, recently_migrated,
                             chunk_request_counts, migrations_reactive>>
              /\ last'.ret = 0 => UNCHANGED <<clusterVars, inflight, metricVars>>
      ]_vars
\* A tick on action 1 with a gap of 3 scheduled two chunks.
C18_Witness ==
    /\ last.op = "ProLBR_Agent.run"
    /\ last.ret = 1
    /\ Len(last.chunk) = MAX_MIGRATIONS_PER_CYCLE
    /\ queue[last.from_node] - queue[last.to_node] = MIN_GAP + 1
    /\ Len(inflight) = MAX_MIGRATIONS_PER_CYCLE

\* The migrations the agent scheduled at its previous tick: those that
\* completed MIGRATION_TIME after it.
ScheduledAtPreviousTick ==
    {c \in DOMAIN completed_at :
        completed_at[c] = now - PROACTIVE_CHECK_INTERVAL + MIGRATION_TIME}

\* C19: the reward used at a tick is the reward observed at that tick minus
\* MIGRATION_COST_PENALTY for each migration scheduled at the previous tick
\* (none at the first tick); the cost of the migrations of this tick is kept
\* for the next tick, and never exceeds MIGRATION_COST_PENALTY *
\* MAX_MIGRATIONS_PER_CYCLE.
C19_CostLag ==
    [][last'.op = "ProLBR_Agent.run" =>
          LET prev == Cardinality(ScheduledAtPreviousTick)
          IN  /\ last'.reward = last'.observed
                     - REWARD_UNIT * MIGRATION_COST_PENALTY * prev
              /\ last_cost = MIGRATION_COST_PENALTY * prev
              /\ last_cost <= MIGRATION_COST_PENALTY * MAX_MIGRATIONS_PER_CYCLE
              /\ last_cost' = MIGRATION_COST_PENALTY * Len(last'.chunk)
              /\ now = WARMUP => last'.reward = last'.observed
      ]_vars
\* A tick that schedules one chunk, right after a tick that scheduled two:
\* the reward used is 2 * MIGRATION_COST_PENALTY below the reward observed.
C19_Witness ==
    /\ last.op = "ProLBR_Agent.run"
    /\ Len(last.chunk) = 1
    /\ last.observed - last.reward
           = REWARD_UNIT * MIGRATION_COST_PENALTY * MAX_MIGRATIONS_PER_CYCLE
    /\ last_cost = MIGRATION_COST_PENALTY

\* The most one update can add to an estimate of 0 when the best value of the
\* new state is 0, times Q_DEN * Q_DEN.
RewardAloneScaled ==
    Q_TABLE_ALPHA * Q_DEN * Max(RewardInputs) * (Q_UNIT \div REWARD_UNIT)

\* C20: a pass of the learning loop changes at most the estimate of the
\* previous state and action, to Q + ALPHA * (reward + GAMMA * max Q(new
\* state, .) - Q) with the values read before the assignment; the estimate of
\* the other action of the previous state and those of every other state keep
\* their values; and the action of a pass that does not explore is chosen on
\* the values after the update.
C20_UpdateRule ==
    [][last'.op = "learn" =>
          LET s == last_state
              a == last_action
              new_state == last'.state
              best_q == Max({Q(q_table, new_state, b) : b \in Actions})
          IN  /\ Q_DEN * Q_DEN * (Q(q_table', s, a) - Q(q_table, s, a))
                     = Q_TABLE_ALPHA * (Q_DEN * last'.reward
                                            + Q_TABLE_GAMMA * best_q
                                            - Q_DEN * Q(q_table, s, a))
              /\ \A x \in QStates, b \in Actions :
                     <<x, b>> # <<s, a>> => Q(q_table', x, b) = Q(q_table, x, b)
              /\ ~last'.explore =>
                     (last'.ret = 1 <=> Q(q_table', new_state, 1)
                                            > Q(q_table', new_state, 0))
      ]_vars

\* A second pass in the state of the first: the estimate of action 1 holds more
\* than a reward alone can give, so the best value of the new state was part
\* of it, it overtook the estimate of action 0 in the same pass, and the pass
\* chose action 1 without exploring.
C20_Witness ==
    /\ last.op = "learn"
    /\ ~last.explore
    /\ last.ret = 1
    /\ DOMAIN q_table = {last.state}
    /\ q_table[last.state][1] > 0
    /\ Q_DEN * Q_DEN * q_table[last.state][2] > RewardAloneScaled

\* C21: a pass that does not explore chooses the action whose estimate in the
\* current state is strictly higher, and action 0 when the two estimates are
\* equal, as they are in a state the table did not hold; a pass that explores
\* can choose either action; the chosen action is 0 or 1.
C21_GreedyChoice ==
    /\ [](\A s \in QStates :
              {choose_action(q_table, s, TRUE, pick) : pick \in Actions}
                  = Actions)
    /\ [][last'.op = "learn" =>
              LET s == last'.state
                  q0 == Q(q_table', s, 0)
                  q1 == Q(q_table', s, 1)
              IN  /\ last'.ret \in Actions
                  /\ last_action' = last'.ret
                  /\ ~last'.explore =>
                         /\ q1 > q0 => last'.ret = 1
                         /\ q0 > q1 => last'.ret = 0
                         /\ q0 = q1 => last'.ret = 0
                  /\ s \notin DOMAIN q_table /\ s # last_state => q0 = q1
      ]_vars

\* A pass that did not explore chose action 0 on two equal estimates that are
\* not 0.
C21_Witness ==
    /\ last.op = "learn"
    /\ ~last.explore
    /\ last.ret = 0
    /\ q_table[last.state][1] = q_table[last.state][2]
    /\ q_table[last.state][1] # 0

\* C22: a state the table does not hold reads as 0 for both actions; a pass of
\* the learning loop removes no entry, and every entry holds two values; a new
\* run starts with an empty table.
C22_LazyTable ==
    /\ [](\A s \in DOMAIN q_table : s \in QStates /\ Len(q_table[s]) = 2)
    /\ [](\A s \in QStates \ DOMAIN q_table :
              /\ Read(q_table, s)[s] = <<0, 0>>
              /\ \A a \in Actions : Q(q_table, s, a) = 0)
    /\ [][last'.op = "learn" =>
              /\ DOMAIN q_table \subseteq DOMAIN q_table'
              /\ DOMAIN q_table' = DOMAIN q_table \cup {last_state, last'.state}
              /\ \A s \in DOMAIN q_table' \ DOMAIN q_table :
                     /\ s # last_state => q_table'[s] = <<0, 0>>
                     /\ s = last_state => q_table'[s][2 - last_action] = 0
      ]_vars
    /\ [][last'.op = "run_simulation" =>
              /\ q_table' = <<>>
              /\ \A s \in QStates, a \in Actions : Q(q_table', s, a) = 0
      ]_vars

\* A run whose table held three entries, and then a new run: the table is
\* empty.
C22_Witness ==
    /\ last.op = "run_simulation"
    /\ last.ret = MaxQSteps + 1
    /\ q_table = <<>>

\* Q_DEN times the target of the sample presented last, reward + gamma * the
\* best estimate of its new state, and Q_DEN times the distance of an estimate
\* from it.
TargetScaled(q) ==
    Q_DEN * last.reward + gamma * Max({Q(q, last.state, b) : b \in Actions})
GapScaled(q) == Q_DEN * Q(q, last_state, last_action) - TargetScaled(q)

\* C23: when update_model is called again on the sample it was called on, the
\* new state being another state than the state, the best estimate of the new
\* state stays what it was, the estimate moves by alpha times what separates
\* it from reward + gamma * that best estimate, it ends no farther from that
\* target than it was, and on the same side of it.
C23_Convergence ==
    /\ [](alpha > 0 /\ alpha <= Q_DEN)
    /\ [][last.op = "update_model" /\ last'.op = "update_model" =>
              LET before == GapScaled(q_table)
                  after == GapScaled(q_table')
              IN  /\ TargetScaled(q_table') = TargetScaled(q_table)
                  /\ Q_DEN * (after - before) = -(alpha * before)
                  /\ before >= 0 => after >= 0 /\ after <= before
                  /\ before <= 0 => after <= 0 /\ after >= before
      ]_vars

\* MaxPresentations calls on one sample: the estimate started below the
\* target, moved at the last call, and is still below it.
C23_Witness ==
    /\ last.op = "update_model"
    /\ q_ticks = MaxPresentations
    /\ GapScaled(q_table) < 0
    /\ Q(q_table, last_state, last_action) > last.ret
    /\ alpha = Max(SweepAlphas)

\* The latency term of the reward the last tick observed, the imbalance being
\* that of the loads the tick read.
LatencyTerm(observed, gap) == observed + IMBALANCE_PENALTY * gap

\* C24: with fewer response times than get_reward asks for, the reward the
\* tick observes is the imbalance term alone and the tick completes; with
\* enough of them it is the imbalance term plus 15, 5, -5, -10 or -20 (in
\* halves: twice that) for a p99 below 30, below 50, below 100, below 200 or
\* from 200 on.
C24_PartialReward ==
    [][last'.op = "ProLBR_Agent.run" =>
          LET term == LatencyTerm(last'.observed, LoadGap)
              p99 == last'.p99
          IN  /\ error' = error
              /\ policy_due' = now + PROACTIVE_CHECK_INTERVAL
              /\ responses < REWARD_MIN_SAMPLES =>
                     /\ term = 0
                     /\ p99 = NoP99
              /\ responses >= REWARD_MIN_SAMPLES =>
                     /\ p99 \in P99Inputs
                     /\ term \in {REWARD_UNIT * r : r \in LATENCY_REWARDS}
                     /\ p99 < 30 => term = REWARD_UNIT * 15
                     /\ p99 >= 30 /\ p99 < 50 => term = REWARD_UNIT * 5
                     /\ p99 >= 50 /\ p99 < 100 => term = -(REWARD_UNIT * 5)
                     /\ p99 >= 100 /\ p99 < 200 => term = -(REWARD_UNIT * 10)
                     /\ p99 >= 200 => term = -(REWARD_UNIT * 20)
      ]_vars

\* A tick one response time short of enough, on unequal loads: its reward is
\* the imbalance term.
C24_Witness ==
    /\ last.op = "ProLBR_Agent.run"
    /\ responses = REWARD_MIN_SAMPLES - 1
    /\ LoadGap > 0
    /\ last.p99 = NoP99
    /\ last.observed = -(IMBALANCE_PENALTY * LoadGap)

\* C25: a run started with a name that is not a policy's processes no event:
\* the time stays 0, no request is dispatched and no metric is recorded.
C25_UnknownPolicyFatal ==
    balancer_type \notin Labels =>
        /\ now = 0
        /\ last.op = "init"
        /\ Outstanding(Nodes) = 0
        /\ responses = 0
        /\ p99_samples = 0

\* The ids of the processes of a node, in the order the node holds them.
IdsOf(n) == [i \in DOMAIN requests[n] |-> requests[n][i].id]

\* C26: on every node at most one request holds the slot; if any request of
\* the node has not completed, one holds the slot and the others wait; and
\* the slot goes to the waiting requests in the order they were dispatched:
\* the holder and those that wait are in the order of their dispatch, and
\* the request that completes is the oldest of the node.
C26_SingleService ==
    /\ [](\A n \in Nodes :
              /\ users[n] \in {0, 1}
              /\ Len(requests[n]) = users[n] + queue[n]
              /\ requests[n] # <<>> => users[n] = 1
              /\ queue[n] = Len(requests[n]) - users[n]
              /\ \A i, j \in DOMAIN requests[n] :
                     i < j => IdsOf(n)[i] < IdsOf(n)[j])
    /\ [][last'.op = "process_request" =>
              LET n == last'.from_node
              IN  /\ users[n] = 1
                  /\ \A i \in DOMAIN requests[n] :
                         IdsOf(n)[1] <= IdsOf(n)[i]
                  /\ requests'[n] = Tail(requests[n])
                  /\ \A m \in Nodes \ {n} : requests'[m] = requests[m]
      ]_vars

\* A node completed a request while two others waited: the older of the two
\* holds the slot and the other waits.
C26_Witness ==
    /\ last.op = "process_request"
    /\ Len(requests[last.from_node]) = 2
    /\ users[last.from_node] = 1
    /\ queue[last.from_node] = 1

\* The requests that have not completed, and their ids.
Uncompleted == UNION {Range(requests[n]) : n \in Nodes}
UncompletedIds == {r.id : r \in Uncompleted}

\* C27: a request stays with the node it was dispatched to until that node
\* completes it, whatever becomes of its chunk; it completes in the end; its
\* completion appends one response time, the time of completion minus the
\* time of dispatch, and no other step touches the response times; and the
\* response times recorded plus the requests waiting or in service are as
\* many as the requests dispatched.
C27_NoRequestDropped ==
    /\ [](/\ \A n \in Nodes : \A r \in Range(requests[n]) : r.node = n
          /\ Len(samples) + Outstanding(Nodes) = dispatched
          /\ Cardinality(UncompletedIds) = Outstanding(Nodes))
    /\ [][/\ \A r \in Uncompleted :
                 \/ r \in Range(requests'[r.node])
                 \/ /\ last'.op = "process_request"
                    /\ last'.from_node = r.node
                    /\ r = Head(requests[r.node])
          /\ IF last'.op = "process_request"
             THEN LET r == Head(requests[last'.from_node])
                  IN  /\ samples' = Append(samples, (now - r.start_time) * 1000)
                      /\ r \notin Uncompleted'
             ELSE samples' = samples
      ]_vars
    /\ \A id \in 1 .. MaxRequests :
           (id \in UncompletedIds) ~> (id \notin UncompletedIds)

\* A request whose chunk has moved to another node while it waited holds the
\* slot of the node it was dispatched to, after the request before it has
\* completed there with a response time above 0.
C27_Witness ==
    /\ last.op = "process_request"
    /\ \E r \in Range(requests[last.from_node]) :
           /\ r = Head(requests[r.node])
           /\ chunk_map[r.chunk] # r.node
           /\ r.chunk \in DOMAIN moved_to
           /\ completed_at[r.chunk] > r.start_time
    /\ samples # <<>>
    /\ samples[Len(samples)] > 0

\* C28: when a node completes the service of a request for chunk c, the
\* node's request counter for c is one more than it was.
C28_RequestCounted ==
    [][last'.op = "process_request" =>
          LET n == last'.from_node
              c == Head(requests[n]).chunk
          IN  /\ chunk_request_counts[n] # NoAttribute
              /\ chunk_request_counts'[n] # NoAttribute
              /\ chunk_request_counts'[n][c] = chunk_request_counts[n][c] + 1
      ]_vars

\* What a query leaves alone: everything but the record of the step.
QueryFrame ==
    UNCHANGED <<now, clusterVars, inflight, nodeVars, metricVars, logVars,
                policyVars, traceVars, balancer_type, error>>

\* C29 as stated: get_load returns the number of requests dispatched to the
\* node and not yet completed, the one in service included, and the query
\* changes no state.
C29_LoadIsUncompleted ==
    /\ [](\A n \in Nodes : get_load(n) = Outstanding({n}))
    /\ [][last'.op = "get_node_loads" => QueryFrame]_vars

\* C29, amended: get_load returns the number of requests that wait for the
\* node's slot, which is the number of requests not yet completed less the
\* one in service; get_node_loads returns it for every node, and the query
\* changes no state.
C29_LoadIsWaiting ==
    /\ [](\A n \in Nodes :
              /\ get_load(n) = queue[n]
              /\ get_load(n) = Outstanding({n}) - users[n]
              /\ Outstanding({n}) > 0 => get_load(n) = Outstanding({n}) - 1)
    /\ [][last'.op = "get_node_loads" =>
              /\ last'.ret = [n \in Nodes |-> queue[n]]
              /\ QueryFrame
      ]_vars

\* get_node_loads was asked while one node served a request with another
\* waiting and the other node served a request with none waiting: it
\* returned 1 and 0.
C29_Witness ==
    /\ last.op = "get_node_loads"
    /\ \E n, m \in Nodes :
           /\ users[n] = 1 /\ queue[n] = 1 /\ last.ret[n] = 1
           /\ users[m] = 1 /\ queue[m] = 0 /\ last.ret[m] = 0

\* The steps in which a process runs, as opposed to the clock moving.
ProcessOps ==
    {"workload_generator", "process_request", "reactive_balancer",
     "ProLBR_Agent.run", "logger", "migrate_chunk_resume"}

\* The timeouts the processes of a run with a policy wait for.
TimeoutsDue ==
    {inflight[i].due : i \in DOMAIN inflight} \cup {policy_due, logger_due}

\* C30: the time never decreases; a process that asked for a timeout runs
\* again at the time it asked for, its suspension time plus the duration: the
\* policy and the logger at the time they are due, one interval after their
\* last pass, a migration MIGRATION_TIME after it was accepted; the clock
\* moves to the earliest pending timeout and past none; no process runs at
\* SIM_TIME or later, and the time stops at SIM_TIME.
C30_Clock ==
    /\ [](now <= SIM_TIME)
    /\ [](error = "none" => \A t \in TimeoutsDue : t >= now)
    /\ [][/\ now' >= now
          /\ last'.op \in ProcessOps => now < SIM_TIME /\ now' = now
          /\ last'.op = "reactive_balancer" =>
                 /\ now = policy_due
                 /\ now % REACTIVE_CHECK_INTERVAL = 0
                 /\ policy_due' = now + REACTIVE_CHECK_INTERVAL
          /\ last'.op = "ProLBR_Agent.run" =>
                 /\ now = policy_due
                 /\ (now - WARMUP) % PROACTIVE_CHECK_INTERVAL = 0
                 /\ error' = "none" => policy_due' = now + PROACTIVE_CHECK_INTERVAL
          /\ last'.op = "logger" =>
                 /\ now = logger_due
                 /\ now % LOG_INTERVAL = 0
                 /\ logger_due' = now + LOG_INTERVAL
          /\ last'.op = "migrate_chunk_resume" =>
                 /\ Head(inflight).due = now
                 /\ now >= MIGRATION_TIME
          /\ \A i \in DOMAIN inflight' :
                 (\A j \in DOMAIN inflight : inflight[j] # inflight'[i])
                     => inflight'[i].due = now + MIGRATION_TIME
          /\ last'.op = "advance" =>
                 /\ now' > now
                 /\ now' <= SIM_TIME
                 /\ \A t \in TimeoutsDue : t > now /\ now' <= t
                 /\ now' \in TimeoutsDue \/ now' = SIM_TIME
      ]_vars

\* The end of a run: the time is SIM_TIME, the policy and the logger wait for
\* timeouts beyond it.
C30_Witness ==
    /\ now = SIM_TIME
    /\ last.op = "advance"
    /\ error = "none"
    /\ policy_due > SIM_TIME
    /\ logger_due > SIM_TIME

\* C38: in a run driven by one policy no migration races another.  Every chunk
\* the policy passes to migrate_chunk is eligible and owned by from_node, so
\* each call is accepted; a chunk in flight has one migration and stays owned
\* by its from_node; and every completion finds the chunk where it was and
\* transfers it: the raced branch is not taken.
C38_NoRace ==
    /\ [](\A i \in DOMAIN inflight :
              /\ inflight[i].eligible
              /\ inflight[i].chunk \in chunks[inflight[i].from_node]
              /\ inflight[i].due <= now + MIGRATION_TIME
              /\ inflight[i].due < policy_due
              /\ \A j \in DOMAIN inflight :
                     i # j => inflight[i].chunk # inflight[j].chunk)
    /\ [][PolicyPasses =>
              /\ \A i \in DOMAIN last'.chunk :
                     /\ can_migrate_chunk(last'.chunk[i])
                     /\ last'.chunk[i] \in chunks[last'.from_node]
              /\ inflight = <<>>
              /\ ScheduledExactly(last'.chunk, last'.from_node, last'.to_node)
        ]_vars
    /\ [][last'.op = "migrate_chunk_resume" =>
              /\ last'.ret # "skipped"
              /\ last'.chunk \in chunks[last'.from_node]
              /\ last'.chunk \in chunks'[last'.to_node]
              /\ last'.chunk \notin chunks'[last'.from_node]
              /\ chunk_map'[last'.chunk] = last'.to_node
        ]_vars
\* The migration the agent scheduled at its second tick, from the node that
\* received a chunk after the first tick, completed and moved its chunk.
C38_Witness ==
    /\ last.op = "migrate_chunk_resume"
    /\ balancer_type = "proactive"
    /\ now = WARMUP + PROACTIVE_CHECK_INTERVAL + MIGRATION_TIME
    /\ Cardinality(DOMAIN completed_at) >= 2
    /\ \E c \in DOMAIN moved_to : moved_to[c] = last.from_node
    /\ chunk_map[last.chunk] = last.to_node

\* C39: a policy never asks for a migration from a node to itself: whenever
\* reactive_balancer or the agent passes chunks to migrate_chunk, from_node
\* carries more load than to_node, so the two differ, every call passes the
\* test of line 73, and no process in flight has its source as its target.
C39_NoSelfMigration ==
    /\ [][PolicyPasses =>
              /\ last'.from_node # last'.to_node
              /\ get_load(last'.from_node) > get_load(last'.to_node)
              /\ \A i \in DOMAIN last'.chunk :
                     Accepts(last'.chunk[i], last'.from_node, last'.to_node)
        ]_vars
    /\ [](\A i \in DOMAIN inflight :
              inflight[i].from_node # inflight[i].to_node)
\* The agent, on a gap of 3 with node 1 the most loaded, passed a chunk from
\* node 1 to node 0.
C39_Witness ==
    /\ last.op = "ProLBR_Agent.run"
    /\ Len(last.chunk) = 1
    /\ last.from_node = 1
    /\ last.to_node = 0
    /\ queue[1] - queue[0] = MIN_GAP + 1
    /\ Len(inflight) = 1

\* C40: in a policy-driven run chunks_in_migration holds at most one chunk
\* under the reactive policy and at most MAX_MIGRATIONS_PER_CYCLE under the
\* agent, the migrations in flight were all accepted in one pass of the policy,
\* and the set is empty when the policy's next pass is due.
C40_BoundedMigrations ==
    /\ Cardinality(chunks_in_migration)
           <= (IF balancer_type = "reactive" THEN 1
               ELSE MAX_MIGRATIONS_PER_CYCLE)
    /\ \A i, j \in DOMAIN inflight : inflight[i].due = inflight[j].due
    /\ now = policy_due => chunks_in_migration = {}

\* The labels the agents of q_table_agent.py, q_table_large_agent.py and
\* dqn_agent.py are built with, which they pass on as the initiator of their
\* migrations.
AgentLabels == {"q_table", "q_table_large", "dqn"}

\* The Cluster API called by a policy of any label.
LabelInit ==
    /\ InitCluster
    /\ balancer_type \in Labels \cup AgentLabels
    /\ driver = "env.step"
    /\ policy_due = 0
    /\ logger_due = 0
    /\ q_params = FALSE
    /\ last_state = IdleState
    /\ alpha = Q_TABLE_ALPHA
    /\ gamma = Q_TABLE_GAMMA

\* A caller starts a migration while none is in flight and none has completed.
CallMigrateLabelled ==
    /\ inflight = <<>>
    /\ recently_migrated = <<>>
    /\ CallMigrate

LabelNext ==
    \/ CallMigrateLabelled
    \/ ResumeMigration
    \/ CallCanMigrate
    \/ Advance

SpecLabels == LabelInit /\ [][LabelNext]_vars

\* C34: an accepted migration adds exactly 1 to the migration count at
\* acceptance, before the MIGRATION_TIME wait, whatever label the policy
\* passes, and a rejected call adds nothing: the counters sum to the number of
\* migrations accepted.
C34_Accounting ==
    [][last'.op = "migrate_chunk" =>
          LET counted == migrations_reactive + migrations_proactive
              counted_after == migrations_reactive' + migrations_proactive'
          IN  /\ last'.ret = "accepted" =>
                     /\ counted_after = counted + 1
                     /\ Len(inflight') = Len(inflight) + 1
                     /\ inflight'[Len(inflight')].due = now + MIGRATION_TIME
              /\ last'.ret = "returned" =>
                     UNCHANGED <<metricVars, inflight>>
      ]_vars

(* --------------------------- the control loop -------------------------- *)
\* Variant: the previous state is kept for the next pass.
Cycled_Stale(state, previous) == previous

\* last_state = state (balancers.py 169, q_table_agent.py 93).
Cycled(state, previous) == state

\* What a pass of the whole loop records: the state and the reward it
\* observed, the pair it updated, the action it chose and the chunks it
\* passed to migrate_chunk.
Passed(cs, f, t, state, reward, explore, action) ==
    [op |-> "run", chunk |-> cs, from_node |-> f, to_node |-> t,
     state |-> state, reward |-> reward, explore |-> explore,
     prev_state |-> IF now = WARMUP THEN state ELSE last_state,
     prev_action |-> last_action, ret |-> action]

\* One pass of ProLBR_Agent.run with its table, from the end of a timeout to
\* the next yield; the pass at the end of the warmup starts with lines
\* 121-123.  In order: the state (126), the reward (129), the update of the
\* previous pair (132-135), the selection on the new state (138-141), the
\* migrations (146-167), the cycling (169-170) and the timeout (172).
run ==
    /\ Running
    /\ balancer_type = "proactive"
    /\ now = policy_due
    /\ q_ticks < MaxQSteps
    /\ \E explore \in BOOLEAN, pick \in Actions, to_node \in LeastLoadedNodes,
          p99 \in Percentiles :
           LET state == get_state(get_node_loads)
               previous == IF now = WARMUP THEN state ELSE last_state
               reward == RewardUsed(get_reward(p99), last_cost)
                             * (Q_UNIT \div REWARD_UNIT)
               q == update_model(q_table, previous, last_action, reward,
                                 state)
               action == choose_action(q, state, explore, pick)
               from_id == MaxLoadNode
               diff == get_node_loads[from_id] - get_node_loads[to_node]
           IN  /\ q_table' = Read(q, state)
               /\ last_state' = Cycled(state, previous)
               /\ last_action' = action
               /\ IF /\ action = 1
                     /\ MeaningfulGap(diff)
                     /\ chunks[from_id] # {}
                     /\ Available(from_id) # {}
                  THEN \E chunks_to_move \in
                           AvailableLists(from_id, MAX_MIGRATIONS_PER_CYCLE) :
                           /\ StartMigrations(chunks_to_move, from_id, to_node,
                                              "proactive")
                           /\ last_cost' = CostOf(chunks_to_move)
                           /\ last' = Passed(chunks_to_move, from_id, to_node,
                                             state, reward, explore, action)
                  ELSE /\ last_cost' = 0
                       /\ last' = Passed(<<>>, from_id, to_node, state,
                                         reward, explore, action)
                       /\ UNCHANGED <<clusterVars, inflight, metricVars>>
    /\ policy_due' = now + PROACTIVE_CHECK_INTERVAL
    /\ q_ticks' = q_ticks + 1
    /\ UNCHANGED <<now, nodeVars, logVars, balancer_type, driver, logger_due,
                   q_params, alpha, gamma, error, completed_at, moved_to,
                   gap_seen, traceVars>>

\* run_simulation('proactive') up to env.run, on an environment stepped by a
\* caller, with the learning parameters set.
LoopInit ==
    /\ StepInit
    /\ balancer_type = "proactive"

\* The workload generator while few requests are outstanding.
ArriveLight ==
    /\ Outstanding(Nodes) < MaxLoopOutstanding
    /\ Arrive

LoopNext ==
    \/ ArriveLight
    \/ Serve
    \/ run
    \/ logger
    \/ RunResume
    \/ RunAdvance

SpecLoop == LoopInit /\ [][LoopNext]_vars

\* C33: the agent observes nothing, updates nothing and schedules nothing
\* before its warmup has elapsed; its passes are at WARMUP and then every
\* PROACTIVE_CHECK_INTERVAL, none skipped; and a pass observes the state and
\* the reward, updates the estimate of the previous state and action and no
\* other, chooses its action on the new state with the updated estimates,
\* passes chunks to migrate_chunk only on action 1, and leaves the new state
\* and the action as the previous pair of the next pass.
C33_LoopOrder ==
    /\ [][now < WARMUP =>
              /\ last'.op # "run"
              /\ UNCHANGED <<q_table, last_state, last_action, last_cost,
                             q_ticks, inflight, chunks_in_migration,
                             metricVars>>
        ]_vars
    /\ [][now' > now => now' <= policy_due]_vars
    /\ [][last'.op = "run" =>
              LET state == last'.state
                  s == last'.prev_state
                  a == last_action
                  best_q == Max({Q(q_table, state, b) : b \in Actions})
              IN  /\ now = WARMUP + q_ticks * PROACTIVE_CHECK_INTERVAL
                  /\ policy_due' = now + PROACTIVE_CHECK_INTERVAL
                  /\ state = get_state(queue)
                  /\ s = IF now = WARMUP THEN state ELSE last_state
                  /\ Q_DEN * Q_DEN * (Q(q_table', s, a) - Q(q_table, s, a))
                         = alpha * (Q_DEN * last'.reward + gamma * best_q
                                        - Q_DEN * Q(q_table, s, a))
                  /\ \A t \in QStates, b \in Actions :
                         <<t, b>> # <<s, a>> =>
                             Q(q_table', t, b) = Q(q_table, t, b)
                  /\ ~last'.explore =>
                         last'.ret = IF Q(q_table', state, 1)
                                            > Q(q_table', state, 0)
                                     THEN 1 ELSE 0
                  /\ Len(last'.chunk) > 0 => last'.ret = 1
                  /\ Len(inflight') = Len(inflight) + Len(last'.chunk)
                  /\ last_cost' = MIGRATION_COST_PENALTY * Len(last'.chunk)
                  /\ last_state' = state
                  /\ last_action' = last'.ret
        ]_vars
\* The second pass, at WARMUP + PROACTIVE_CHECK_INTERVAL: it found another
\* state than the first, updated the estimate of the first pass's state and
\* action 1, and passed a chunk again.
C33_Witness ==
    /\ last.op = "run"
    /\ now = WARMUP + PROACTIVE_CHECK_INTERVAL
    /\ q_ticks = 2
    /\ last.prev_state # last.state
    /\ last.prev_action = 1
    /\ Q(q_table, last.prev_state, 1) # 0
    /\ Len(last.chunk) = 1
    /\ last_state = last.state
    /\ last_action = 1

(* ---------------------------- service times ---------------------------- *)
\* Times a request holds the slot, in tenths of a millisecond:
\* config.PROCESSING_TIME_MS, the 0.0001 s of the timeout, and the 2 ms per
\* waiting request of pro_lbr_simulation.py.
PROCESSING_TIME == 80
SWITCH_DELAY == 1
DEPTH_PENALTY == 20
\* random.uniform(-0.5, 0.5), in tenths of a millisecond.
Jitters == -5 .. 5

\* The class of each node: node 0 is a Node of node.py, the others are Nodes
\* of pro_lbr_simulation.py.
NodeClass(n) == IF n = 0 THEN "node.Node" ELSE "pro_lbr_simulation.Node"

\* The argument of the service timeout: processing_time_ms / 1000.0 + 0.0001.
\* pro_lbr_simulation.py adds queue_depth * 2 ms first (lines 157-158), the
\* lines node.py keeps as a comment (lines 26-27).
hold_time(n, jitter) ==
    IF NodeClass(n) = "node.Node"
    THEN PROCESSING_TIME + jitter + SWITCH_DELAY
    ELSE PROCESSING_TIME + jitter + queue[n] * DEPTH_PENALTY + SWITCH_DELAY

\* process_request up to its request for the slot, on a node of either class:
\* the time it will hold the slot is fixed here, from the jitter drawn and,
\* in pro_lbr_simulation.py, the requests waiting.
enqueue ==
    /\ Outstanding(Nodes) < MaxOutstanding
    /\ \E n \in Nodes, jitter \in Jitters :
           /\ process_request(n)
           /\ last' = [op |-> "enqueue", class |-> NodeClass(n),
                       from_node |-> n, jitter |-> jitter,
                       waiting |-> queue[n], hold |-> hold_time(n, jitter)]
    /\ UNCHANGED <<now, clusterVars, inflight, metricVars, logVars,
                   balancer_type, driver, policyVars, error, completed_at,
                   moved_to, gap_seen, traceVars>>

\* One node of each class, requests arriving and being served.
ServiceNext ==
    \/ enqueue
    \/ Serve

SpecService == NodeInit /\ [][ServiceNext]_vars

\* C35: the time a request holds the slot is the base processing time plus a
\* jitter within half a millisecond plus 0.1 ms, whatever the number of
\* requests waiting on the node when it is enqueued.
C35_NoDepthPenalty ==
    last.op = "enqueue" =>
        /\ last.jitter \in Jitters
        /\ last.hold = PROCESSING_TIME + last.jitter + SWITCH_DELAY

(* ------------------------ the discretised agents ----------------------- *)
\* QTableAgent and QTableLargeAgent keep the loop of the agent above and key
\* the table by a tuple of four levels.  Raw values are counted in halves, so
\* that the thresholds 0.5 and -0.5 of the fine agent are whole numbers.
RAW_UNIT == 2

\* The raw states get_state is applied to: (max_load, imbalance, load_v,
\* imb_v) in halves, 0 <= imbalance <= max_load, on both sides of thresholds
\* of both agents.
RawLoads == {<<6, 0>>, <<7, 0>>, <<34, 0>>, <<34, 13>>}
RawVelocities == {-5, -2, 3}
RawInputs ==
    {<<l[1], l[2], lv, iv>> : l \in RawLoads, lv \in RawVelocities,
                              iv \in RawVelocities}
\* The raw state of a cluster at rest, and the values one component is varied
\* over.
RawIdle == <<0, 0, 0, 0>>
RawValues == -45 .. 45

\* QTableAgent.get_state, lines 47 and 48: the level of a velocity.
QTableAgent_v_lvl(v) ==
    IF v > 1 * RAW_UNIT THEN 1 ELSE IF v < -1 * RAW_UNIT THEN -1 ELSE 0

\* Lines 36-39, with config.LOAD_LVL_THRESH = [3, 7, 12].
QTableAgent_load_lvl(max_load) ==
    IF max_load <= 3 * RAW_UNIT THEN 1
    ELSE IF max_load <= 7 * RAW_UNIT THEN 2
    ELSE IF max_load <= 12 * RAW_UNIT THEN 3
    ELSE 4

\* Lines 42-44, with config.IMB_LVL_THRESH = [2, 6].
QTableAgent_imb_lvl(imbalance) ==
    IF imbalance <= 2 * RAW_UNIT THEN 1
    ELSE IF imbalance <= 6 * RAW_UNIT THEN 2
    ELSE 3

\* QTableAgent.get_state
QTableAgent_get_state(raw_state) ==
    <<QTableAgent_load_lvl(raw_state[1]), QTableAgent_imb_lvl(raw_state[2]),
      QTableAgent_v_lvl(raw_state[3]), QTableAgent_v_lvl(raw_state[4])>>

\* Variant: a ninth load level above 20.
QTableLargeAgent_load_lvl_Ninth(max_load) ==
    IF max_load <= 2 * RAW_UNIT THEN 1
    ELSE IF max_load <= 4 * RAW_UNIT THEN 2
    ELSE IF max_load <= 6 * RAW_UNIT THEN 3
    ELSE IF max_load <= 8 * RAW_UNIT THEN 4
    ELSE IF max_load <= 10 * RAW_UNIT THEN 5
    ELSE IF max_load <= 13 * RAW_UNIT THEN 6
    ELSE IF max_load <= 16 * RAW_UNIT THEN 7
    ELSE IF max_load <= 20 * RAW_UNIT THEN 8
    ELSE 9

\* QTableLargeAgent.get_state, lines 41-48.
QTableLargeAgent_load_lvl(max_load) ==
    IF max_load <= 2 * RAW_UNIT THEN 1
    ELSE IF max_load <= 4 * RAW_UNIT THEN 2
    ELSE IF max_load <= 6 * RAW_UNIT THEN 3
    ELSE IF max_load <= 8 * RAW_UNIT THEN 4
    ELSE IF max_load <= 10 * RAW_UNIT THEN 5
    ELSE IF max_load <= 13 * RAW_UNIT THEN 6
    ELSE IF max_load <= 16 * RAW_UNIT THEN 7
    ELSE 8

\* Lines 51-57.
QTableLargeAgent_imb_lvl(imbalance) ==
    IF imbalance <= 1 * RAW_UNIT THEN 1
    ELSE IF imbalance <= 2 * RAW_UNIT THEN 2
    ELSE IF imbalance <= 3 * RAW_UNIT THEN 3
    ELSE IF imbalance <= 4 * RAW_UNIT THEN 4
    ELSE IF imbalance <= 5 * RAW_UNIT THEN 5
    ELSE IF imbalance <= 6 * RAW_UNIT THEN 6
    ELSE 7

\* Lines 60-64 and 66-70: the level of a velocity; 0.5 is one half.
QTableLargeAgent_v_lvl(v) ==
    IF v > 2 * RAW_UNIT THEN 2
    ELSE IF v > 1 THEN 1
    ELSE IF v < -2 * RAW_UNIT THEN -2
    ELSE IF v < -1 THEN -1
    ELSE 0

\* QTableLargeAgent.get_state
QTableLargeAgent_get_state(raw_state) ==
    <<QTableLargeAgent_load_lvl(raw_state[1]),
      QTableLargeAgent_imb_lvl(raw_state[2]),
      QTableLargeAgent_v_lvl(raw_state[3]),
      QTableLargeAgent_v_lvl(raw_state[4])>>

\* self.get_state of the agent run_simulation built for balancer_type.
self_get_state(raw_state) ==
    IF balancer_type = "q_table" THEN QTableAgent_get_state(raw_state)
    ELSE QTableLargeAgent_get_state(raw_state)

\* What a pass of the loop of a discretised agent records.
Binned(raw_state, state, reward, explore, action) ==
    [op |-> "QTableAgent.run", raw |-> raw_state, state |-> state,
     prev_state |-> last_state, reward |-> reward, explore |-> explore,
     ret |-> action]

\* Steps 1-4 and 6 of one pass of QTableAgent.run and QTableLargeAgent.run
\* (the two loops are the same text): the reward and the raw state are inputs.
QTableAgent_run ==
    /\ q_ticks < MaxQSteps
    /\ \E raw_state \in RawInputs, r \in RewardInputs \ {0},
          explore \in BOOLEAN, pick \in Actions :
           LET new_state == self_get_state(raw_state)
               reward == r * (Q_UNIT \div REWARD_UNIT)
               q == update_model(q_table, last_state, last_action, reward,
                                 new_state)
               action == choose_action(q, new_state, explore, pick)
           IN  /\ q_table' = Read(q, new_state)
               /\ last_state' = new_state
               /\ last_action' = action
               /\ last' = Binned(raw_state, new_state, reward, explore, action)
    /\ q_ticks' = q_ticks + 1
    /\ UNCHANGED <<now, clusterVars, inflight, nodeVars, metricVars, logVars,
                   balancer_type, driver, policy_due, logger_due, last_cost,
                   q_params, alpha, gamma, error, completed_at, moved_to,
                   gap_seen, traceVars>>

\* One of the two agents at the end of its warmup (line 71 of q_table_agent.py,
\* line 94 of q_table_large_agent.py).
BinsInit ==
    /\ InitCluster
    /\ balancer_type \in {"q_table", "q_table_large"}
    /\ policy_due = WARMUP
    /\ logger_due = LOG_INTERVAL
    /\ q_params = TRUE
    /\ driver = "env.step"
    /\ last_state \in {self_get_state(RawIdle), self_get_state(<<34, 13, 3, 3>>)}
    /\ alpha = Q_TABLE_ALPHA
    /\ gamma = Q_TABLE_GAMMA

BinsNext == QTableAgent_run

SpecBins == BinsInit /\ [][BinsNext]_vars

\* The levels the claim allows in component i of a tuple of the agent of
\* balancer_type, and the tuples it allows.
BinLevels(i) ==
    IF balancer_type = "q_table"
    THEN IF i = 1 THEN 1..4 ELSE IF i = 2 THEN 1..3 ELSE -1..1
    ELSE IF i = 1 THEN 1..8 ELSE IF i = 2 THEN 1..7 ELSE -2..2
BinSpace == BinLevels(1) \X BinLevels(2) \X BinLevels(3) \X BinLevels(4)
BinCount == IF balancer_type = "q_table" THEN 108 ELSE 1400

\* Component i of self.get_state of a raw state whose component i is v.
self_lvl(i, v) ==
    IF balancer_type = "q_table"
    THEN IF i = 1 THEN QTableAgent_load_lvl(v)
         ELSE IF i = 2 THEN QTableAgent_imb_lvl(v)
         ELSE QTableAgent_v_lvl(v)
    ELSE IF i = 1 THEN QTableLargeAgent_load_lvl(v)
         ELSE IF i = 2 THEN QTableLargeAgent_imb_lvl(v)
         ELSE QTableLargeAgent_v_lvl(v)

\* C36: get_state of either agent returns a tuple of its space of 108, resp.
\* 1400, tuples for every raw state, each level non-decreasing in its raw
\* value, and every key of the Q table is such a tuple, so that the table
\* never holds more than 108, resp. 1400, states.
C36_BoundedStateSpace ==
    /\ q_ticks = 0 => Cardinality(BinSpace) = BinCount
    /\ DOMAIN q_table \subseteq BinSpace
    /\ Cardinality(DOMAIN q_table) <= BinCount
    /\ last_state \in BinSpace
    /\ \A i \in 1..4 : \A v \in RawValues :
           /\ self_lvl(i, v) \in BinLevels(i)
           /\ self_lvl(i, v) <= self_lvl(i, v + 1)
    /\ last.op = "QTableAgent.run" =>
           /\ last.state = self_get_state(last.raw)
           /\ \A i \in 1..4 : last.state[i] = self_lvl(i, last.raw[i])
           /\ last.state \in DOMAIN q_table

\* The fine agent has met, in two passes, a state of the top load and
\* imbalance levels and one of falling velocities, both keys of its table.
C36_Witness ==
    /\ last.op = "QTableAgent.run"
    /\ balancer_type = "q_table_large"
    /\ q_ticks = MaxQSteps
    /\ last.state = <<8, 7, 1, -2>>
    /\ last.prev_state = <<2, 1, -1, -2>>
    /\ {last.state, last.prev_state} \subseteq DOMAIN q_table
    /\ Cardinality(DOMAIN q_table) >= 3

(* -------------------------- the workload generator --------------------- *)
\* The run below keeps the generator's clock and the chunk ids of the
\* configuration: time is counted in arrival periods of 1 / REQUEST_RATE
\* seconds, and the cluster has config.NUM_NODES nodes and config.NUM_CHUNKS
\* chunks.  The rounding of the float env.now is not modelled.
REQUEST_RATE == 220
CONFIG_NUM_NODES == 4
CONFIG_NUM_CHUNKS == 64
\* The two phase boundaries of workload_generator, in seconds.
PHASE2_START == 150
PHASE3_START == 300
\* Arrival periods the run covers on either side of a phase boundary.
MaxWindow == 2

\* The instants the run starts at: the start of the generator, and shortly
\* before each phase boundary.
WindowStarts ==
    {0, PHASE2_START * REQUEST_RATE - MaxWindow,
     PHASE3_START * REQUEST_RATE - MaxWindow}
InWindow(t) == \E s \in WindowStarts : t \in s .. (s + 2 * MaxWindow)

\* Variant: the second phase starts one period late.
hot_list_Late(t) ==
    IF t <= PHASE2_START * REQUEST_RATE THEN {0, 4, 8, 12, 16}
    ELSE IF t < PHASE3_START * REQUEST_RATE THEN {1, 5, 9, 13, 17}
    ELSE {2, 6, 10, 14, 18}

\* hot_list of workload_generator at t = env.now.
hot_list(t) ==
    IF t < PHASE2_START * REQUEST_RATE THEN {0, 4, 8, 12, 16}
    ELSE IF t < PHASE3_START * REQUEST_RATE THEN {1, 5, 9, 13, 17}
    ELSE {2, 6, 10, 14, 18}

\* What random.choice(hot_list), resp. random.randint(0, NUM_CHUNKS - 1), can
\* return; hot is the outcome of random.random() < 0.35.
chunk_ids(t, hot) ==
    IF hot THEN hot_list(t) ELSE 0 .. (CONFIG_NUM_CHUNKS - 1)

\* What a pass of the generator's loop records.
Generated(t, hot, chunk_id, ret) ==
    [op |-> "workload_generator", t |-> t, hot |-> hot, chunk |-> chunk_id,
     ret |-> ret]

\* One pass of workload_generator's loop, from the end of its timeout to the
\* next yield; dispatched counts the passes, so that the pending timeout is
\* due at instant dispatched.  A chunk id chunk_map does not hold raises
\* KeyError in get_node_for_chunk, which ends the generator and env.run.
workload_generator ==
    /\ error = "none"
    /\ now = dispatched
    /\ \E hot \in BOOLEAN : \E chunk_id \in chunk_ids(now, hot) :
           IF chunk_id \in DOMAIN chunk_map
           THEN /\ process_request(get_node_for_chunk(chunk_id))
                /\ dispatched' = dispatched + 1
                /\ last' = Generated(now, hot, chunk_id,
                                     get_node_for_chunk(chunk_id))
                /\ UNCHANGED error
           ELSE /\ error' = "KeyError"
                /\ last' = Generated(now, hot, chunk_id, "KeyError")
                /\ UNCHANGED <<users, queue, dispatched>>
    /\ UNCHANGED <<now, clusterVars, inflight, metricVars, logVars,
                   balancer_type, driver, policyVars, completed_at, moved_to,
                   gap_seen, requests, samples, rng, first_run>>

\* A node finishes the request it is serving, between two arrivals.
served ==
    /\ error = "none"
    /\ now < dispatched
    /\ \E n \in DOMAIN users :
           /\ users[n] = 1
           /\ process_request_resume(n)
           /\ last' = Ev("process_request", 0, n, n, "served")
    /\ UNCHANGED <<now, clusterVars, inflight, metricVars, p99_samples,
                   last_log_time, balancer_type, driver, policyVars, error,
                   completed_at, moved_to, gap_seen, traceVars>>

\* env.run steps to the generator's timeout, one arrival period later.
next_arrival ==
    /\ error = "none"
    /\ now < dispatched
    /\ InWindow(dispatched)
    /\ now' = dispatched
    /\ last' = Ev("env.step", 0, 0, 0, "timeout")
    /\ UNCHANGED <<clusterVars, inflight, nodeVars, metricVars, logVars,
                   balancer_type, driver, policyVars, error, completed_at,
                   moved_to, gap_seen, traceVars>>

\* The cluster of the configuration, with no policy, idle at the start of a
\* window: Cluster.__init__ places chunk i on node i % NUM_NODES.
WorkloadInit ==
    /\ now \in WindowStarts
    /\ dispatched = now
    /\ chunks = [n \in 0 .. (CONFIG_NUM_NODES - 1) |->
                    {i \in 0 .. (CONFIG_NUM_CHUNKS - 1) :
                         i % CONFIG_NUM_NODES = n}]
    /\ chunk_map = [i \in 0 .. (CONFIG_NUM_CHUNKS - 1) |->
                       i % CONFIG_NUM_NODES]
    /\ chunks_in_migration = {}
    /\ recently_migrated = <<>>
    /\ chunk_request_counts =
           [n \in 0 .. (CONFIG_NUM_NODES - 1) |-> NoAttribute]
    /\ inflight = <<>>
    /\ users = [n \in 0 .. (CONFIG_NUM_NODES - 1) |-> 0]
    /\ queue = [n \in 0 .. (CONFIG_NUM_NODES - 1) |-> 0]
    /\ migrations_reactive = 0
    /\ migrations_proactive = 0
    /\ responses = 0
    /\ p99_samples = 0
    /\ last_log_time = 0
    /\ last_cost = 0
    /\ error = "none"
    /\ completed_at = <<>>
    /\ moved_to = <<>>
    /\ gap_seen = NoGap
    /\ requests = [n \in 0 .. (CONFIG_NUM_NODES - 1) |-> <<>>]
    /\ samples = <<>>
    /\ rng = Unseeded
    /\ first_run = NoRun
    /\ last = Ev("init", 0, 0, 0, "none")
    /\ q_table = <<>>
    /\ last_action = 0
    /\ q_ticks = 0
    /\ balancer_type = "none"
    /\ driver = "env.run"
    /\ policy_due = NoTimeout
    /\ logger_due = NoTimeout
    /\ q_params = FALSE
    /\ last_state = IdleState
    /\ alpha = Q_TABLE_ALPHA
    /\ gamma = Q_TABLE_GAMMA

WorkloadNext == workload_generator \/ served \/ next_arrival

SpecWorkload == WorkloadInit /\ [][WorkloadNext]_vars

policy_registered ==
    IF balancer_type = "reactive" THEN policy_due - REACTIVE_CHECK_INTERVAL
    ELSE IF policy_due = WARMUP THEN 0
    ELSE policy_due - PROACTIVE_CHECK_INTERVAL

\* The timeouts due now, each with the instant of its registration.  Timeouts
\* registered at one instant are ranked as run_simulation starts the processes
\* (the policy before the logger), a migration's timeout after both.
TimeoutsDueNow ==
    {[proc |-> "policy", registered |-> policy_registered, rank |-> 1] :
        x \in IF policy_due = now THEN {1} ELSE {}}
    \cup
    {[proc |-> "logger", registered |-> logger_due - LOG_INTERVAL,
      rank |-> 2] : x \in IF logger_due = now THEN {1} ELSE {}}
    \cup
    {[proc |-> "migrate_chunk",
      registered |-> inflight[i].due - MIGRATION_TIME, rank |-> 2 + i] :
        i \in {j \in DOMAIN inflight : inflight[j].due = now}}

\* Variant: the timeout registered last is taken first.
NextTimeout_Latest ==
    CHOOSE e \in TimeoutsDueNow :
        \A f \in TimeoutsDueNow :
            \/ e.registered > f.registered
            \/ e.registered = f.registered /\ e.rank >= f.rank

\* The head of the heap among the timeouts due now.
NextTimeout ==
    CHOOSE e \in TimeoutsDueNow :
        \A f \in TimeoutsDueNow :
            \/ e.registered < f.registered
            \/ e.registered = f.registered /\ e.rank <= f.rank

\* env.step takes the event of process proc.
Resumes(proc) == TimeoutsDueNow # {} /\ NextTimeout.proc = proc

reactive_balancer_step == Resumes("policy") /\ reactive_balancer
ProLBR_Agent_step == Resumes("policy") /\ ProLBR_Agent_run
logger_step == Resumes("logger") /\ logger
migrate_chunk_step == Resumes("migrate_chunk") /\ RunResume

OrderNext ==
    \/ Arrive
    \/ Serve
    \/ reactive_balancer_step
    \/ ProLBR_Agent_step
    \/ logger_step
    \/ migrate_chunk_step
    \/ RunAdvance

SpecOrder == StepInit /\ [][OrderNext]_vars

\* A timeout is resumed by a step: the policy's, the logger's, a migration's.
PolicyResumed == policy_due' # policy_due
LoggerResumed == logger_due' # logger_due
MigrationResumed == last'.op = "migrate_chunk_resume"

\* Timeouts due at one instant are resumed in the order of their
\* registration, one process per step.
TimeoutsInRegistrationOrder ==
    /\ [][LoggerResumed =>
              /\ now = logger_due
              /\ policy_due = now => policy_registered > logger_due - LOG_INTERVAL
              /\ \A i \in DOMAIN inflight :
                     inflight[i].due = now =>
                         inflight[i].due - MIGRATION_TIME
                             >= logger_due - LOG_INTERVAL]_vars
    /\ [][PolicyResumed =>
              /\ now = policy_due
              /\ logger_due = now => logger_due - LOG_INTERVAL >= policy_registered
              /\ \A i \in DOMAIN inflight :
                     inflight[i].due = now =>
                         inflight[i].due - MIGRATION_TIME >= policy_registered]_vars
    /\ [][MigrationResumed =>
              /\ Head(inflight).due = now
              /\ inflight' = Tail(inflight)
              /\ \A i \in DOMAIN inflight :
                     Head(inflight).due <= inflight[i].due
              /\ policy_due = now =>
                     policy_registered > now - MIGRATION_TIME
              /\ logger_due = now =>
                     logger_due - LOG_INTERVAL > now - MIGRATION_TIME]_vars
    /\ [][~(PolicyResumed /\ LoggerResumed)
          /\ ~(PolicyResumed /\ MigrationResumed)
          /\ ~(LoggerResumed /\ MigrationResumed)]_vars

MaxDraws == 8
Streams == [1 .. MaxDraws -> Chunks]

\* Draws taken since random.seed, and the k-th element of the stream.
drawn == rng.base + dispatched + migrations_reactive
Draw(k) == rng.stream[((k - 1) % Len(rng.stream)) + 1]

\* list(from_node.chunks) filtered by can_migrate_chunk: a set of small ints
\* is iterated in ascending order.
RECURSIVE Ascending(_)
Ascending(S) ==
    IF S = {} THEN <<>>
    ELSE <<Min(S)>> \o Ascending(S \ {Min(S)})

\* random.choice(seq) on the next element of the stream.
random_choice(seq) == seq[(Draw(drawn + 1) % Len(seq)) + 1]

\* The run has ended: env.run returned or raised.
Ended == rng # Unseeded /\ ~Running

\* What is compared of the state a run ends in.
EndOfRun ==
    [now |-> now, error |-> error, chunk_map |-> chunk_map, chunks |-> chunks,
     migrations_reactive |-> migrations_reactive,
     migrations_proactive |-> migrations_proactive,
     dispatched |-> dispatched, users |-> users, queue |-> queue,
     completed_at |-> completed_at, moved_to |-> moved_to,
     p99_samples |-> p99_samples, last |-> last]

\* Variant: the generator is not seeded again.
random_seed_Skipped(taken) == taken

\* random.seed(config.RANDOM_SEED): the draws taken from the stream after it.
random_seed(taken) == 0

\* metrics.reset on a migration counter.
reset(count) == 0

\* run_simulation up to env.run, called when the process starts and again
\* when the first run has ended: the seeds, metrics.reset, a new environment,
\* a new Cluster, and the first timeouts of the policy and of the logger.
run_simulation ==
    /\ \/ /\ rng = Unseeded
          /\ \E stream \in Streams : rng' = [stream |-> stream, base |-> 0]
          /\ first_run' = NoRun
       \/ /\ Ended
          /\ first_run = NoRun
          /\ rng' = [rng EXCEPT !.base = random_seed(drawn)]
          /\ first_run' = EndOfRun
    /\ migrations_reactive' = reset(migrations_reactive)
    /\ migrations_proactive' = reset(migrations_proactive)
    /\ responses' = 0
    /\ p99_samples' = 0
    /\ last_log_time' = 0
    /\ now' = 0
    /\ inflight' = <<>>
    /\ error' = "none"
    /\ chunks' = InitChunks
    /\ chunk_map' = InitChunkMap
    /\ chunks_in_migration' = {}
    /\ recently_migrated' = <<>>
    /\ chunk_request_counts' = InitRequestCounts
    /\ users' = [n \in Nodes |-> 0]
    /\ queue' = [n \in Nodes |-> 0]
    /\ dispatched' = 0
    /\ policy_due' = REACTIVE_CHECK_INTERVAL
    /\ logger_due' = LOG_INTERVAL
    /\ completed_at' = <<>>
    /\ moved_to' = <<>>
    /\ last' = Ev("run_simulation", 0, 0, 0, "none")
    /\ UNCHANGED <<balancer_type, driver, last_cost, q_params, qVars,
                   requests, samples, gap_seen>>

\* workload_generator: a request for the chunk the stream gives.
workload_seeded ==
    /\ rng # Unseeded
    /\ Dispatch
    /\ last'.chunk = Draw(drawn + 1)
    /\ dispatched' = dispatched + 1
    /\ UNCHANGED <<gap_seen, requests, samples, rng, first_run>>

\* reactive_balancer, resumed in its turn: random.choice on the stream.
reactive_seeded ==
    /\ rng # Unseeded
    /\ reactive_balancer_step
    /\ last'.ret = "scheduled" =>
           last'.chunk = <<random_choice(Ascending(Available(MaxLoadNode)))>>

logger_seeded == rng # Unseeded /\ logger_step
migrate_chunk_seeded == rng # Unseeded /\ migrate_chunk_step

\* The clock moves on when the requests of this run are dispatched.
advance_seeded ==
    /\ rng # Unseeded
    /\ Outstanding(Nodes) = MaxOutstanding
    /\ RunAdvance

SeededNext ==
    \/ run_simulation
    \/ workload_seeded
    \/ reactive_seeded
    \/ logger_seeded
    \/ migrate_chunk_seeded
    \/ advance_seeded

SpecSeeded == ReactiveInit /\ [][SeededNext]_vars

====
